---- MODULE Spec2Model ----
(***************************************************************************)
(* A model of rustube: the Stream downloader (src/src/stream/mod.rs), the  *)
(* cached content length, the VideoFetcher (src/src/fetcher.rs) and the    *)
(* VideoDescrambler (src/src/descrambler/mod.rs).                          *)
(*                                                                         *)
(* Each part of the program has its own specification: SpecDownload,       *)
(* SpecLength, SpecFetch, SpecDescramble, SpecPair (two concurrent         *)
(* downloads), SpecId (src/src/id.rs), SpecCipher (the signature cipher),  *)
(* SpecScan (the scanners for a JSON object), SpecConfig (the player       *)
(* config in the watch html) and SpecCallback (a download with a Callback  *)
(* of src/src/stream/callback.rs).  The variables of the other parts stay  *)
(* at their initial values.                                                *)
(***************************************************************************)
EXTENDS Integers, Sequences, FiniteSets, TLC

(***************************************************************************)
(* Bounds of the model.                                                    *)
(***************************************************************************)
\* largest Segment-Count the server reports
MaxSeg == 3
\* largest number of bytes in one response body
MaxBody == 2
\* largest number of bytes in one chunk of a body stream
MaxChunk == 2
\* largest content length a format or a HEAD response carries
MaxLen == 2

\* number of content_length() calls made on the one Stream
MaxCalls == 3

\* largest number of formats (formats and adaptive_formats together) of a
\* StreamingData
MaxFormats == 2

\* capacity of the Callback's internal channel.  Callback::new makes it with
\* mpsc::channel(100); the model keeps the channel bounded and takes a
\* capacity that a download of MaxSeg segments of MaxBody bytes can fill
ChannelCap == 2
\* capacity of the bounded channel the user hands to connect_on_progress_sender
UserCap == 1

\* two concurrent downloads: largest Segment-Count and largest body
PairSeg == 2
PairBody == 1

\* the raw inputs of Id end in 1..MaxTail free characters
MaxTail == 3

\* the scrambled signatures of the cipher have up to MaxSig characters, its
\* transform plans up to MaxPlan steps with arguments up to MaxArg
MaxSig == 3
MaxPlan == 2
MaxArg == 3

\* the texts given to the json scanner have up to MaxScan bytes
MaxScan == 5

\* the htmls searched for the player response have up to MaxHtml tokens
MaxHtml == 4

\* a download with a Callback writes up to MaxReports chunks
MaxReports == 3

VARIABLES
    \* ---- one download: Stream::internal_download_to ----
    dl_pc,          \* position in internal_download_to
    callback,       \* "NoCallback" (None), or the on_progress type of Some(callback)
    cancel_on_close,\* the bool of OnProgressType::Channel(sender, bool)
    on_complete,    \* the on_complete type of the callback: "None" or "Closure"
    content_length, \* the Stream's AtomicU64 cell; 0 is "not known"
    mode,           \* "direct": download_full on the stream url; "seq": download_full_seq
    sq,             \* the sq of the current sequenced request
    segment_count,  \* Segment-Count read from the sq=0 response
    fileExists,     \* the destination path names a file
    fileOpen,       \* the File handle is open
    file,           \* the bytes of the destination file
    reqLog,         \* every GET issued so far, with its outcome and the body received
    counter,        \* write_stream_to_file's counter
    channel,        \* the internal channel: the counters sent and not yet received
    receiver,       \* "none" | "open" | "closed" | "dropped": the internal receiver
    pg_pc,          \* the on_progress task: "recv" at receiver.recv(), "send" at sender.send()
    pending,        \* the counter the on_progress task is sending to the user
    user_channel,   \* the user's channel: the counters sent and not yet received
    user_rx,        \* "open" | "closed": the user's receiver
    closed_at,      \* how many GETs had been issued when the user closed it; -1 if open
    completed,      \* the arguments the on_complete closure was called with
    error,          \* the error of download_full that the third match arm holds
    removeFailed,   \* remove_file itself failed
    delivered,      \* the current_chunk values the on_progress closure was called with
    fallbacks,      \* how often download_full_seq was entered
    result,         \* "none" while running, then "Ok" or the error returned
    \* ---- calls of Stream::content_length on one Stream ----
    cl_pc,          \* per caller: "idle", or "head" while its HEAD request is in flight
    cl_start,       \* per caller: the time its current call began
    clock,          \* counts the calls begun and ended
    history,        \* the calls that returned, in the order they returned
    stores,         \* the values stored into the cell, in order
    \* ---- one VideoFetcher::fetch or fetch_info ----
    f_op,           \* "fetch" or "fetch_info"
    f_pc,           \* position in fetch / fetch_info
    js_pc,          \* position of get_js inside try_join!
    api_pc,         \* position of get_video_info inside try_join!
    status,         \* the PlayabilityStatus found in the watch html
    is_age_restricted, \* the watch html matches og:restrictions:age
    passed,         \* check_availability returned Ok(())
    player_response,\* get_js's Option<PlayerResponse>: "None", or the page it is from
    api_streaming_data, \* the API's PlayerResponse has streaming_data
    pr_source,      \* where video_info.player_response comes from in the end
    f_log,          \* the requests sent and the responses received, in order
    f_result,       \* "none" while running, then Ok or the error returned
    \* ---- one VideoDescrambler::descramble ----
    d_pc,           \* position in descramble
    raw,            \* the signatureCipher of each format as the server sent it
    has_streaming_data, \* player_response.streaming_data is Some
    formats,        \* streaming_data.formats: the SignatureCipher of each RawFormat
    adaptive_formats, \* streaming_data.adaptive_formats, likewise
    adaptive_fmts_raw, \* video_info.adaptive_fmts_raw: absent, or its entries
    js,             \* the player script
    d_i,            \* the place of apply_signature's loop in formats ++ adaptive_formats
    streams,        \* the Streams made by initialize_streams
    d_result,       \* "none" while running, then "Ok" or the error returned
    \* ---- two downloads of two Streams that run concurrently ----
    p_call,         \* per Stream: the download function called and its arguments
    dl,             \* per Stream: the state of its internal_download_to
    fs,             \* the directory entries: per path the file it names, 0 if none
    ino,            \* per file: its bytes
    \* ---- one Id parsed from a raw string ----
    id_pc,          \* "raw", then "parsed" (from_raw) or "checked" (from_str), then "again"
    id_raw,         \* the raw input, a sequence of characters
    id_res,         \* the result of from_raw or from_str on id_raw
    id_form,        \* the url made from the parsed Id: "watch", "embed" or "share"
    id_again,       \* the result of from_raw on that url
    \* ---- one signature descrambled by the cipher ----
    c_pc,           \* "run" while the plan is applied, then "done" or "undefined"
    c_s,            \* the scrambled signature, a sequence of characters
    c_plan,         \* the transform plan: a sequence of <<op, arg>>
    c_k,            \* the number of steps of the plan applied so far
    c_a,            \* the array of characters the steps work on
    \* ---- one text scanned for a json object ----
    s_pc,           \* "start", "scan", "found", "done", then "helper"
    s_in,           \* the text handed to json_object, a sequence of bytes
    s_html,         \* html after trim_start_matches
    s_i,            \* the place of the byte the iterator is at, counted from 1
    s_stack,        \* the context stack
    s_skip,         \* the skip flag
    s_res,          \* the result of json_object
    h_res,          \* the result of find_object_from_startpoint on the same text
    \* ---- one html searched for the initial player response ----
    g_pc,           \* "try" while the patterns are tried, then "done"
    g_html,         \* the html, a sequence of tokens
    g_k,            \* the place in CONFIG_PATTERNS of the pattern tried next
    g_tried,        \* per pattern tried so far, how it failed
    g_res,          \* the result of get_ytplayer_config
    \* ---- one download with a Callback of stream/callback.rs ----
    sw_kind,        \* the OnProgressType of the Callback
    sw_cancel,      \* the bool of Channel(sender, bool) and SlowChannel(sender, bool)
    sw_pc,          \* wrap_callback: "join", "complete", "returned"
    sw_dl,          \* the download: "create", "run", "finishing", "ended"
    sw_counter,     \* the counter of the write_stream_to_file that runs
    sw_total,       \* the bytes reported so far, over every write_stream_to_file
    sw_sends,       \* the number of try_send calls so far
    sw_queue,       \* the internal channel, of InternalSignal
    sw_rx,          \* the internal receiver: "open" or "closed" (receiver.close())
    sw_loop,        \* on_progress: "recv", "send" (awaits sender.send), "done"
    sw_held,        \* the current_chunk on_progress is sending to the user
    sw_trigger,     \* last_trigger
    sw_seen,        \* the counters the loop has received
    sw_fired,       \* the current_chunk of every call of the handler
    sw_user,        \* the user's receiver of a channel handler: "open" or "closed"
    sw_inbox,       \* the number of CallbackArguments waiting in the user's channel
    sw_result       \* "none" while the download runs, then its result

\* the parts of the download's state, as the actions leave them unchanged
dlInput == <<callback, cancel_on_close, on_complete, content_length>>
dlFile == <<fileExists, fileOpen, file>>
dlUser == <<pg_pc, pending, user_channel, user_rx, closed_at, completed>>
dlProgress == <<channel, receiver, delivered>>
dlVars == <<dl_pc, dlInput, mode, sq, segment_count, dlFile, reqLog, counter,
            dlProgress, dlUser, error, removeFailed, fallbacks, result>>

clVars == <<cl_pc, cl_start, clock, history, stores>>

fVars == <<f_op, f_pc, js_pc, api_pc, status, is_age_restricted, passed,
           player_response, api_streaming_data, pr_source, f_log, f_result>>

dInput == <<raw, has_streaming_data, adaptive_fmts_raw, js>>
dVars == <<d_pc, dInput, formats, adaptive_formats, d_i, streams, d_result>>

pVars == <<p_call, dl, fs, ino>>

idVars == <<id_pc, id_raw, id_res, id_form, id_again>>

cVars == <<c_pc, c_s, c_plan, c_k, c_a>>

sVars == <<s_pc, s_in, s_html, s_i, s_stack, s_skip, s_res, h_res>>

gVars == <<g_pc, g_html, g_k, g_tried, g_res>>

swConf == <<sw_kind, sw_cancel>>
swDl == <<sw_dl, sw_counter, sw_total, sw_sends, sw_result>>
swLoop == <<sw_rx, sw_loop, sw_held, sw_trigger, sw_seen, sw_fired>>
swUser == <<sw_user, sw_inbox>>
wVars == <<swConf, swDl, swLoop, swUser, sw_queue, sw_pc>>

vars == <<dlVars, clVars, fVars, dVars, pVars, idVars, cVars, sVars, gVars, wVars>>

\* what the steps of one part leave unchanged
notDl == <<clVars, fVars, dVars, pVars, idVars, cVars,
    sVars,
    gVars,
    wVars>>
notCl == <<dl_pc, callback, cancel_on_close, on_complete, mode, sq, segment_count,
           dlFile, reqLog, counter, dlProgress, dlUser, error, removeFailed,
           fallbacks, result, fVars, dVars, pVars, idVars, cVars,
    sVars,
    gVars,
    wVars>>
notF == <<dlVars, clVars, dVars, pVars, idVars, cVars,
    sVars,
    gVars,
    wVars>>
notD == <<dlVars, clVars, fVars, pVars, idVars, cVars,
    sVars,
    gVars,
    wVars>>
notP == <<dlVars, clVars, fVars, dVars, idVars, cVars,
    sVars,
    gVars,
    wVars>>
notId == <<dlVars, clVars, fVars, dVars, pVars, cVars,
    sVars,
    gVars,
    wVars>>
notC == <<dlVars, clVars, fVars, dVars, pVars, idVars,
    sVars,
    gVars,
    wVars>>
notS == <<dlVars, clVars, fVars, dVars, pVars, idVars, cVars,
    gVars,
    wVars>>
notG == <<dlVars, clVars, fVars, dVars, pVars, idVars, cVars, sVars,
    wVars>>
notW == <<dlVars, clVars, fVars, dVars, pVars, idVars, cVars, sVars, gVars>>

(***************************************************************************)
(* Helpers.                                                                *)
(***************************************************************************)
Last(s) == s[Len(s)]

\* s with its last element replaced by e
SetLast(s, e) == [s EXCEPT ![Len(s)] = e]

RECURSIVE Concat(_)
\* the concatenation of a sequence of sequences
Concat(ss) == IF ss = <<>> THEN <<>> ELSE Head(ss) \o Concat(Tail(ss))

(***************************************************************************)
(* The download.                                                           *)
(***************************************************************************)
\* the query of the stream url (signature_cipher.url), a sequence of pairs
base_query == << <<"expire", "1">> >>

\* Stream::set_url_seq_query: the base query with one sq=<n> pair appended
set_url_seq_query(query, n) == Append(query, <<"sq", ToString(n)>>)

\* the query of the url the next GET goes to
CurrentUrl == IF mode = "direct" THEN base_query ELSE set_url_seq_query(base_query, sq)

\* The bytes of a body.  The downloader never looks at a byte, so the k-th
\* byte of the r-th response is the pair <<r, k>>: two bodies never share a
\* byte, and the order of the bytes in the file shows where each came from.
Byte(r, k) == <<r, k>>

\* the chunk of n bytes that follows the first m bytes of the r-th response
Chunk(r, m, n) == [k \in 1..n |-> Byte(r, m + k)]

\* a guard that takes every status error for a 404
IsAnyStatus(e) == e \in {"Status404", "Status500"}

\* the guard of the second match arm: Error::Request(e) with status 404
IsNotFound(e) == e = "Status404"

\* a for loop that runs one request too far
SeqRangeInclusive(n) == 1..n

\* the range of the for loop of download_full_seq, after the sq=0 request
SeqRange(n) == 1..(n - 1)

\* write_stream_to_file gets the callback, except for the sq=0 probe (&None)
ChannelGiven == callback # "NoCallback" /\ ~(mode = "seq" /\ sq = 0)

\* the tasks that call content_length() on clones of the one Stream
Callers == {1, 2}

\* the content_length part before any call
ClIdle ==
    /\ cl_pc = [c \in Callers |-> "idle"]
    /\ cl_start = [c \in Callers |-> 0]
    /\ clock = 0
    /\ history = <<>>
    /\ stores = <<>>

\* the two Streams that are downloaded concurrently
PairStreams == {1, 2}

\* the ids of the Videos the Streams belong to, the directories, and the file
\* names a caller of download_to chooses
VideoIds == {"a", "b"}
Dirs == {".", "d"}
Names == {"x", "y"}

\* a path: the directory and the file name (the extension is always mp4)
Paths == Dirs \X (VideoIds \cup Names)

\* the state of a download that has not begun
PStart ==
    [pc |-> "create", mode |-> "direct", sq |-> 0, segment_count |-> 0,
     got |-> 0, off |-> 0, handle |-> 0, error |-> "none", result |-> "none",
     alone |-> "none", aloneFile |-> FALSE]

\* the two-download part before any download is called
PIdle ==
    /\ p_call = [s \in PairStreams |->
                    [api |-> "download", video_id |-> "a", dir |-> ".", name |-> "x"]]
    /\ dl = [s \in PairStreams |-> PStart]
    /\ fs = [q \in Paths |-> 0]
    /\ ino = [s \in PairStreams |-> <<>>]

\* the result of a constructor of Id: Ok(Id(id)), or Err(BadIdFormat)
IdOk(id) == [ok |-> TRUE, id |-> id]
BadIdFormat == [ok |-> FALSE, id |-> <<>>]

\* the Id part before anything is parsed
IdIdle ==
    /\ id_pc = "raw"
    /\ id_raw = <<>>
    /\ id_res = BadIdFormat
    /\ id_form = "none"
    /\ id_again = BadIdFormat

\* the cipher before a signature is given to it
CIdle ==
    /\ c_pc = "run"
    /\ c_s = <<>>
    /\ c_plan = <<>>
    /\ c_k = 0
    /\ c_a = <<>>

\* the result of a scan before it has ended, and its three ends
Unscanned == [kind |-> "none", val |-> <<>>]
Found(t) == [kind |-> "Ok", val |-> t]
Internal == [kind |-> "Internal", val |-> <<>>]
Panicked == [kind |-> "panic", val |-> <<>>]

\* the scanner before a text is given to it
SIdle ==
    /\ s_pc = "start"
    /\ s_in = <<>>
    /\ s_html = <<>>
    /\ s_i = 0
    /\ s_stack = <<>>
    /\ s_skip = FALSE
    /\ s_res = Unscanned
    /\ h_res = Unscanned

\* the result of get_ytplayer_config before it has returned
NoConfig == [kind |-> "none", at |-> 0]

\* get_ytplayer_config before an html is given to it
GIdle ==
    /\ g_pc = "try"
    /\ g_html = <<>>
    /\ g_k = 1
    /\ g_tried = <<>>
    /\ g_res = NoConfig

\* the Callback before a download is started
WIdle ==
    /\ sw_kind = "None"
    /\ sw_cancel = FALSE
    /\ sw_pc = "join"
    /\ sw_dl = "create"
    /\ sw_counter = 0
    /\ sw_total = 0
    /\ sw_sends = 0
    /\ sw_queue = <<>>
    /\ sw_rx = "open"
    /\ sw_loop = "recv"
    /\ sw_held = 0
    /\ sw_trigger = 0
    /\ sw_seen = <<>>
    /\ sw_fired = <<>>
    /\ sw_user = "open"
    /\ sw_inbox = 0
    /\ sw_result = "none"

\* the fetch part before fetch() is called
FIdle ==
    /\ f_op = "fetch"
    /\ f_pc = "start"
    /\ js_pc = "init"
    /\ api_pc = "init"
    /\ status = "unknown"
    /\ is_age_restricted = FALSE
    /\ passed = FALSE
    /\ player_response = "None"
    /\ api_streaming_data = FALSE
    /\ pr_source = "none"
    /\ f_log = <<>>
    /\ f_result = [kind |-> "none", status |-> "none"]

\* the descrambler part before descramble() is called, with nothing fetched
DIdle ==
    /\ d_pc = "start"
    /\ raw = [formats |-> <<>>, adaptive |-> <<>>]
    /\ has_streaming_data = FALSE
    /\ formats = <<>>
    /\ adaptive_formats = <<>>
    /\ adaptive_fmts_raw = [some |-> FALSE, val |-> <<>>]
    /\ js = "unparsable"
    /\ d_i = 0
    /\ streams = <<>>
    /\ d_result = "none"

DlInit ==
    /\ WIdle
    /\ GIdle
    /\ SIdle
    /\ ClIdle
    /\ PIdle
    /\ IdIdle
    /\ CIdle
    /\ FIdle
    /\ DIdle
    /\ dl_pc = "create"
    /\ callback \in {"NoCallback", "None", "Closure", "Channel"}
    /\ cancel_on_close \in (IF callback = "Channel" THEN BOOLEAN ELSE {FALSE})
    /\ on_complete \in (IF callback = "NoCallback" THEN {"None"} ELSE {"None", "Closure"})
    /\ content_length \in 0..MaxLen
    /\ pg_pc = "recv"
    /\ pending = 0
    /\ user_channel = <<>>
    /\ user_rx = "open"
    /\ closed_at = -1
    /\ completed = <<>>
    /\ mode = "direct"
    /\ sq = 0
    /\ segment_count = 0
    /\ fileExists = FALSE
    /\ fileOpen = FALSE
    /\ file = <<>>
    /\ reqLog = <<>>
    /\ counter = 0
    /\ channel = <<>>
    /\ receiver = "none"
    /\ delivered = <<>>
    /\ error = "none"
    /\ removeFailed = FALSE
    /\ fallbacks = 0
    /\ result = "none"

\* File::create(&path).await?, then task::spawn(Self::on_progress(..)) when a
\* callback was given
DlCreate ==
    /\ dl_pc = "create"
    /\ \/ /\ dl_pc' = "send"
          /\ fileExists' = TRUE
          /\ fileOpen' = TRUE
          /\ file' = <<>>
          /\ receiver' = IF callback = "NoCallback" THEN "none" ELSE "open"
          /\ UNCHANGED result
       \/ /\ dl_pc' = "done"
          /\ result' = "IO"
          /\ UNCHANGED <<fileExists, fileOpen, file, receiver>>
    /\ UNCHANGED <<dlInput, dlUser, mode, sq, segment_count, reqLog, counter, channel,
                   delivered, error, removeFailed, fallbacks>>

\* Stream::get: self.client.get(url).send()
DlSend ==
    /\ dl_pc = "send"
    /\ reqLog' = Append(reqLog, [url |-> CurrentUrl, outcome |-> "pending", body |-> <<>>])
    /\ dl_pc' = "wait"
    /\ UNCHANGED <<dlInput, dlUser, mode, sq, segment_count, dlFile, counter, dlProgress,
                   error, removeFailed, fallbacks, result>>

\* what internal_download_to does with an Err(e) of download_full, and what
\* download_full_seq does with an error of one of its requests
DlFail(e) ==
    IF mode = "direct"
    THEN IF IsNotFound(e)
         THEN \* second arm: download_full_seq, which first requests sq=0
              /\ mode' = "seq"
              /\ sq' = 0
              /\ fallbacks' = fallbacks + 1
              /\ dl_pc' = "send"
              /\ UNCHANGED <<error, result, fileOpen>>
         ELSE \* third arm: drop(file), then remove_file
              /\ error' = e
              /\ fileOpen' = FALSE
              /\ dl_pc' = "remove"
              /\ UNCHANGED <<mode, sq, fallbacks, result>>
    ELSE \* download_full_seq returns the error; map_err only logs it
         /\ result' = e
         /\ dl_pc' = "finish"
         /\ UNCHANGED <<mode, sq, fallbacks, error, fileOpen>>

\* the GET fails: a transport error of send(), or error_for_status()
DlRespondErr ==
    /\ dl_pc = "wait"
    /\ \E e \in {"Transport", "Status404", "Status500"} :
        /\ reqLog' = SetLast(reqLog, [Last(reqLog) EXCEPT !.outcome = e])
        /\ DlFail(e)
    /\ UNCHANGED <<dlInput, dlUser, segment_count, fileExists, file, counter, dlProgress,
                   removeFailed>>

\* the GET succeeds; for any request but sq=0 the body is streamed next
DlRespondOk ==
    /\ dl_pc = "wait"
    /\ ~(mode = "seq" /\ sq = 0)
    /\ reqLog' = SetLast(reqLog, [Last(reqLog) EXCEPT !.outcome = "200"])
    /\ counter' = 0
    /\ dl_pc' = "body"
    /\ UNCHANGED <<dlInput, dlUser, mode, sq, segment_count, dlFile, dlProgress, error,
                   removeFailed, fallbacks, result>>

\* the sq=0 GET succeeds and extract_segment_count finds Segment-Count: n
DlRespondProbe ==
    /\ dl_pc = "wait"
    /\ mode = "seq" /\ sq = 0
    /\ reqLog' = SetLast(reqLog, [Last(reqLog) EXCEPT !.outcome = "200"])
    /\ \E n \in 0..MaxSeg : segment_count' = n
    /\ counter' = 0
    /\ dl_pc' = "body"
    /\ UNCHANGED <<dlInput, dlUser, mode, sq, dlFile, dlProgress, error, removeFailed,
                   fallbacks, result>>

\* the sq=0 GET succeeds, but the Segment-Count header is missing, not utf-8
\* or not a number: extract_segment_count fails
DlRespondNoCount ==
    /\ dl_pc = "wait"
    /\ mode = "seq" /\ sq = 0
    /\ reqLog' = SetLast(reqLog, [Last(reqLog) EXCEPT !.outcome = "200"])
    /\ result' = "UnexpectedResponse"
    /\ dl_pc' = "finish"
    /\ UNCHANGED <<dlInput, dlUser, mode, sq, segment_count, dlFile, counter, dlProgress,
                   error, removeFailed, fallbacks>>

\* the number of bytes of the current response received so far
Received == Len(Last(reqLog).body)

\* channel.try_send(counter): Closed when the receiver is gone, Full (ignored)
\* when the channel holds ChannelCap values
ChannelIsClosed == receiver \in {"closed", "dropped"}

\* a guard-free try_send: the counter is queued whatever the channel holds
try_send_unbounded(c) == Append(channel, c)

try_send(c) == IF Len(channel) >= ChannelCap THEN channel ELSE Append(channel, c)

\* write_stream_to_file: the stream yields a chunk of n bytes, write_all
\* appends it to the file, and the counter is sent through the channel
DlChunk ==
    /\ dl_pc = "body"
    /\ \E n \in 1..MaxChunk :
        /\ Received + n <= MaxBody
        /\ LET chunk == Chunk(Len(reqLog), Received, n) IN
            /\ reqLog' = SetLast(reqLog, [Last(reqLog) EXCEPT !.body = @ \o chunk])
            /\ file' = file \o chunk
            /\ IF ChannelGiven
               THEN /\ counter' = counter + n
                    /\ IF ChannelIsClosed
                       THEN /\ DlFail("ChannelClosed")
                            /\ UNCHANGED channel
                       ELSE /\ channel' = try_send(counter + n)
                            /\ UNCHANGED <<dl_pc, mode, sq, fallbacks, error, result,
                                           fileOpen>>
               ELSE UNCHANGED <<counter, channel, dl_pc, mode, sq, fallbacks, error,
                               result, fileOpen>>
    /\ UNCHANGED <<dlInput, dlUser, segment_count, fileExists, receiver, delivered,
                   removeFailed>>

\* write_stream_to_file: the stream yields a chunk, but write_all fails after
\* writing m of its n bytes
DlWriteErr ==
    /\ dl_pc = "body"
    /\ \E n \in 1..MaxChunk : \E m \in 0..(n - 1) :
        /\ Received + n <= MaxBody
        /\ LET chunk == Chunk(Len(reqLog), Received, n) IN
            /\ reqLog' = SetLast(reqLog, [Last(reqLog) EXCEPT !.body = @ \o chunk])
            /\ file' = file \o SubSeq(chunk, 1, m)
    /\ DlFail("IO")
    /\ UNCHANGED <<dlInput, dlUser, segment_count, fileExists, counter, dlProgress,
                   removeFailed>>

\* write_stream_to_file: the stream yields an error (the connection broke)
DlChunkErr ==
    /\ dl_pc = "body"
    /\ DlFail("Transport")
    /\ UNCHANGED <<dlInput, dlUser, segment_count, fileExists, file, reqLog, counter,
                   dlProgress, removeFailed>>

\* write_stream_to_file: the stream ends.  download_full returns Ok; in
\* download_full_seq the for loop goes on with the next sq of its range
DlBodyEnd ==
    /\ dl_pc = "body"
    /\ IF mode = "seq" /\ sq + 1 \in SeqRange(segment_count)
       THEN /\ sq' = sq + 1
            /\ dl_pc' = "send"
            /\ UNCHANGED result
       ELSE /\ result' = "Ok"
            /\ dl_pc' = "finish"
            /\ UNCHANGED sq
    /\ UNCHANGED <<dlInput, dlUser, mode, segment_count, dlFile, reqLog, counter, dlProgress,
                   error, removeFailed, fallbacks>>

\* third arm: tokio::fs::remove_file(path).await?; Err(e)
DlRemove ==
    /\ dl_pc = "remove"
    /\ \/ /\ fileExists' = FALSE
          /\ result' = error
          /\ UNCHANGED removeFailed
       \/ /\ removeFailed' = TRUE
          /\ result' = "IO"
          /\ UNCHANGED fileExists
    /\ dl_pc' = IF removeFailed' THEN "done" ELSE "finish"
    /\ UNCHANGED <<dlInput, dlUser, mode, sq, segment_count, fileOpen, file, reqLog, counter,
                   dlProgress, error, fallbacks>>

\* the path handed to on_complete: Some(path) if let Ok(_) = &result, else None
CompletePath == IF result = "Ok" THEN "Some(path)" ELSE "None"

\* Stream::on_complete, the body of the future: a closure is called with path
OnComplete(kind, path) ==
    IF kind = "Closure" THEN Append(completed, path) ELSE completed

\* whether the future that Self::on_complete(..) returns is polled: the call
\* in internal_download_to is a statement with no .await, so the future is
\* dropped as soon as it is made
OnCompleteAwaited == FALSE

\* the end of internal_download_to: handle.abort() ends the on_progress task,
\* which drops the receiver; the on_complete future is made for Some(callback);
\* the File is dropped when the function returns
DlFinish ==
    /\ dl_pc = "finish"
    /\ receiver' = IF receiver \in {"open", "closed"} THEN "dropped" ELSE receiver
    /\ completed' = IF callback # "NoCallback" /\ OnCompleteAwaited
                     THEN OnComplete(on_complete, CompletePath)
                     ELSE completed
    /\ fileOpen' = FALSE
    /\ dl_pc' = "done"
    /\ UNCHANGED <<dlInput, pg_pc, pending, user_channel, user_rx, closed_at, mode,
                   sq, segment_count, fileExists, file, reqLog, counter, channel,
                   delivered, error, removeFailed, fallbacks, result>>

\* Stream::on_progress with OnProgressType::None: the task returns at once
\* and drops the receiver
PgNone ==
    /\ callback = "None"
    /\ receiver = "open"
    /\ receiver' = "dropped"
    /\ UNCHANGED <<dl_pc, dlInput, dlUser, mode, sq, segment_count, dlFile, reqLog, counter,
                   channel, delivered, error, removeFailed, fallbacks, result>>

\* Stream::on_progress with OnProgressType::Closure: receiver.recv() yields a
\* counter and the closure is called with it
PgClosure ==
    /\ callback = "Closure"
    /\ receiver = "open"
    /\ channel # <<>>
    /\ delivered' = Append(delivered, Head(channel))
    /\ channel' = Tail(channel)
    /\ UNCHANGED <<dl_pc, dlInput, dlUser, mode, sq, segment_count, dlFile, reqLog, counter,
                   receiver, error, removeFailed, fallbacks, result>>

\* Stream::on_progress with OnProgressType::Channel: receiver.recv() yields a
\* counter, which is sent on next
PgChannelRecv ==
    /\ callback = "Channel"
    /\ receiver \in {"open", "closed"}
    /\ pg_pc = "recv"
    /\ channel # <<>>
    /\ pending' = Head(channel)
    /\ channel' = Tail(channel)
    /\ pg_pc' = "send"
    /\ UNCHANGED <<dl_pc, dlInput, mode, sq, segment_count, dlFile, reqLog, counter,
                   receiver, delivered, user_channel, user_rx, closed_at, completed, error,
                   removeFailed, fallbacks, result>>

\* receiver.recv() yields None once the receiver is closed and empty: the
\* while loop ends, the task returns and drops the receiver
PgChannelEnd ==
    /\ callback = "Channel"
    /\ receiver = "closed"
    /\ pg_pc = "recv"
    /\ channel = <<>>
    /\ receiver' = "dropped"
    /\ UNCHANGED <<dl_pc, dlInput, dlUser, mode, sq, segment_count, dlFile, reqLog,
                   counter, channel, delivered, error, removeFailed, fallbacks,
                   result>>

\* sender.send(arguments).await: waits while the user's channel is full; Err
\* when the user's receiver is closed, and then receiver.close() if
\* cancel_on_close
PgChannelSend ==
    /\ callback = "Channel"
    /\ receiver \in {"open", "closed"}
    /\ pg_pc = "send"
    /\ IF user_rx = "closed"
       THEN /\ receiver' = IF cancel_on_close THEN "closed" ELSE receiver
            /\ UNCHANGED user_channel
       ELSE /\ Len(user_channel) < UserCap
            /\ user_channel' = Append(user_channel, pending)
            /\ UNCHANGED receiver
    /\ pg_pc' = "recv"
    /\ pending' = 0
    /\ UNCHANGED <<dl_pc, dlInput, mode, sq, segment_count, dlFile, reqLog, counter,
                   channel, delivered, user_rx, closed_at, completed, error, removeFailed,
                   fallbacks, result>>

\* the user takes a CallbackArguments from their receiver
UserRecv ==
    /\ callback = "Channel"
    /\ user_rx = "open"
    /\ user_channel # <<>>
    /\ user_channel' = Tail(user_channel)
    /\ UNCHANGED <<dl_pc, dlInput, mode, sq, segment_count, dlFile, reqLog, counter,
                   dlProgress, pg_pc, pending, user_rx, closed_at, completed, error,
                   removeFailed, fallbacks, result>>

\* the user closes or drops their receiver
UserClose ==
    /\ callback = "Channel"
    /\ user_rx = "open"
    /\ user_rx' = "closed"
    /\ closed_at' = Len(reqLog)
    /\ UNCHANGED <<dl_pc, dlInput, mode, sq, segment_count, dlFile, reqLog, counter,
                   dlProgress, pg_pc, pending, user_channel, completed, error,
                   removeFailed, fallbacks, result>>

DlNext ==
    \/ DlCreate /\ UNCHANGED notDl
    \/ DlSend /\ UNCHANGED notDl
    \/ DlRespondErr /\ UNCHANGED notDl
    \/ DlRespondOk /\ UNCHANGED notDl
    \/ DlRespondProbe /\ UNCHANGED notDl
    \/ DlRespondNoCount /\ UNCHANGED notDl
    \/ DlChunk /\ UNCHANGED notDl
    \/ DlWriteErr /\ UNCHANGED notDl
    \/ DlChunkErr /\ UNCHANGED notDl
    \/ DlBodyEnd /\ UNCHANGED notDl
    \/ DlRemove /\ UNCHANGED notDl
    \/ DlFinish /\ UNCHANGED notDl
    \/ PgNone /\ UNCHANGED notDl
    \/ PgClosure /\ UNCHANGED notDl
    \/ PgChannelRecv /\ UNCHANGED notDl
    \/ PgChannelEnd /\ UNCHANGED notDl
    \/ PgChannelSend /\ UNCHANGED notDl
    \/ UserRecv /\ UNCHANGED notDl
    \/ UserClose /\ UNCHANGED notDl

SpecDownload == DlInit /\ [][DlNext]_vars

(***************************************************************************)
(* Stream::content_length.                                                 *)
(***************************************************************************)
\* the download part, not started
DlIdle ==
    /\ dl_pc = "create"
    /\ callback = "NoCallback"
    /\ cancel_on_close = FALSE
    /\ on_complete = "None"
    /\ pg_pc = "recv"
    /\ pending = 0
    /\ user_channel = <<>>
    /\ user_rx = "open"
    /\ closed_at = -1
    /\ completed = <<>>
    /\ mode = "direct"
    /\ sq = 0
    /\ segment_count = 0
    /\ fileExists = FALSE
    /\ fileOpen = FALSE
    /\ file = <<>>
    /\ reqLog = <<>>
    /\ counter = 0
    /\ channel = <<>>
    /\ receiver = "none"
    /\ delivered = <<>>
    /\ error = "none"
    /\ removeFailed = FALSE
    /\ fallbacks = 0
    /\ result = "none"

\* from_raw_format: the cell starts as raw_format.content_length.unwrap_or(0)
ClInit ==
    /\ WIdle
    /\ GIdle
    /\ SIdle
    /\ DlIdle
    /\ ClIdle
    /\ PIdle
    /\ IdIdle
    /\ CIdle
    /\ FIdle
    /\ DIdle
    /\ content_length \in 0..MaxLen

\* the calls begun so far
Begun == Len(history) + Cardinality({c \in Callers : cl_pc[c] = "head"})

\* the record of a call of caller c that returns now
Return(c, from, res, v) ==
    [caller |-> c, start |-> from, end |-> clock + 1, res |-> res, val |-> v]

\* content_length(): load the cell; return it when it is not 0, else send
\* the HEAD request
ClCall(c) ==
    /\ cl_pc[c] = "idle"
    /\ Begun < MaxCalls
    /\ IF content_length # 0
       THEN /\ history' = Append(history, Return(c, clock + 1, "Ok", content_length))
            /\ UNCHANGED <<cl_pc, cl_start>>
       ELSE /\ cl_pc' = [cl_pc EXCEPT ![c] = "head"]
            /\ cl_start' = [cl_start EXCEPT ![c] = clock + 1]
            /\ UNCHANGED history
    /\ clock' = clock + 1
    /\ UNCHANGED <<content_length, stores>>

\* a failing HEAD that stores a length of 1 in the cell
ClHeadErr_stores(c) ==
    /\ cl_pc[c] = "head"
    /\ \E e \in {"Transport", "Status", "UnexpectedResponse"} :
        history' = Append(history, Return(c, cl_start[c], e, 0))
    /\ cl_pc' = [cl_pc EXCEPT ![c] = "idle"]
    /\ clock' = clock + 1
    /\ content_length' = 1
    /\ stores' = Append(stores, 1)
    /\ UNCHANGED cl_start

\* the HEAD fails: send() fails, error_for_status() fails, or the response
\* has no Content-Length that parses as u64
ClHeadErr(c) ==
    /\ cl_pc[c] = "head"
    /\ \E e \in {"Transport", "Status", "UnexpectedResponse"} :
        history' = Append(history, Return(c, cl_start[c], e, 0))
    /\ cl_pc' = [cl_pc EXCEPT ![c] = "idle"]
    /\ clock' = clock + 1
    /\ UNCHANGED <<content_length, cl_start, stores>>

\* the HEAD answers Content-Length: v, which is stored and returned
ClHeadOk(c) ==
    /\ cl_pc[c] = "head"
    /\ \E v \in 0..MaxLen :
        /\ content_length' = v
        /\ stores' = Append(stores, v)
        /\ history' = Append(history, Return(c, cl_start[c], "Ok", v))
    /\ cl_pc' = [cl_pc EXCEPT ![c] = "idle"]
    /\ clock' = clock + 1
    /\ UNCHANGED cl_start

ClNext ==
    \E c \in Callers :
        \/ ClCall(c) /\ UNCHANGED notCl
        \/ ClHeadErr(c) /\ UNCHANGED notCl
        \/ ClHeadOk(c) /\ UNCHANGED notCl

SpecLength == ClInit /\ [][ClNext]_vars

(***************************************************************************)
(* VideoFetcher::fetch and fetch_info.                                     *)
(***************************************************************************)
\* the variants of PlayabilityStatus; "Missing": the watch html holds none
Statuses == {"Ok", "LoginRequired", "Unplayable", "Error"}

Done(kind) == [kind |-> kind, status |-> "none"]

\* a check that lets every LoginRequired video through
check_availability_no_guard(ps, age) ==
    IF ps = "Missing" THEN Done("UnexpectedResponse")
    ELSE IF ps = "Ok" THEN Done("Ok")
    ELSE IF ps = "LoginRequired" THEN Done("Ok")
    ELSE [kind |-> "VideoUnavailable", status |-> ps]

\* VideoFetcher::check_availability
check_availability(ps, age) ==
    IF ps = "Missing" THEN Done("UnexpectedResponse")
    ELSE IF ps = "Ok" THEN Done("Ok")
    ELSE IF ps = "LoginRequired" /\ age THEN Done("Ok")
    ELSE [kind |-> "VideoUnavailable", status |-> ps]

FInit ==
    /\ WIdle
    /\ GIdle
    /\ SIdle
    /\ DlIdle
    /\ ClIdle
    /\ PIdle
    /\ IdIdle
    /\ CIdle
    /\ DIdle
    /\ content_length = 0
    /\ f_op \in {"fetch", "fetch_info"}
    /\ f_pc = "start"
    /\ js_pc = "init"
    /\ api_pc = "init"
    /\ status = "unknown"
    /\ is_age_restricted = FALSE
    /\ passed = FALSE
    /\ player_response = "None"
    /\ api_streaming_data = FALSE
    /\ pr_source = "none"
    /\ f_log = <<>>
    /\ f_result = Done("none")

\* fetch / fetch_info: self.get_html(&self.watch_url)
FStart ==
    /\ f_pc = "start"
    /\ f_log' = Append(f_log, "send:watch")
    /\ f_pc' = "watch"
    /\ UNCHANGED <<f_op, js_pc, api_pc, status, is_age_restricted, passed,
                   player_response, api_streaming_data, pr_source, f_result>>

\* get_html of the watch url fails (transport, status or body)
FWatchErr ==
    /\ f_pc = "watch"
    /\ f_log' = Append(f_log, "fail:watch")
    /\ f_result' = Done("Request")
    /\ f_pc' = "done"
    /\ UNCHANGED <<f_op, js_pc, api_pc, status, is_age_restricted, passed,
                   player_response, api_streaming_data, pr_source>>

\* the watch html arrives; is_age_restricted is computed and, in fetch,
\* check_availability runs before anything else is awaited
FWatchOk ==
    /\ f_pc = "watch"
    /\ \E ps \in Statuses \cup {"Missing"}, age \in BOOLEAN :
        /\ status' = ps
        /\ is_age_restricted' = age
        /\ IF f_op = "fetch"
           THEN LET r == check_availability(ps, age) IN
                /\ f_log' = f_log \o <<"recv:watch", "check">>
                /\ passed' = (r.kind = "Ok")
                /\ IF r.kind = "Ok"
                   THEN f_pc' = "join" /\ UNCHANGED f_result
                   ELSE f_pc' = "done" /\ f_result' = r
           ELSE /\ f_log' = Append(f_log, "recv:watch")
                /\ f_pc' = "join"
                /\ UNCHANGED <<passed, f_result>>
    /\ UNCHANGED <<f_op, js_pc, api_pc, player_response, api_streaming_data,
                   pr_source>>

\* get_video_info_and_js is called without waiting for the watch html
JoinStartedEarly == f_pc \in {"watch", "join"}

\* get_video_info_and_js has been called: try_join! polls get_js and
\* get_video_info
JoinStarted == f_pc = "join"

\* one future of try_join! fails: try_join! returns the error at once and
\* drops the other future
JoinFail(kind) ==
    /\ f_result' = Done(kind)
    /\ f_pc' = "done"

\* a match that takes the PlayerResponse of the page whenever there is one
Merge_prefers_html(pr, sd) ==
    IF pr # "None"
    THEN /\ pr_source' = pr
         /\ f_result' = Done("Ok")
    ELSE IF sd
         THEN /\ pr_source' = "api"
              /\ f_result' = Done("Ok")
         ELSE /\ pr_source' = "none"
              /\ f_result' = Done("UnexpectedResponse")

\* both futures are done: the match on (streaming_data, player_response)
Merge(pr, sd) ==
    IF sd
    THEN /\ pr_source' = "api"
         /\ f_result' = Done("Ok")
    ELSE IF pr # "None"
         THEN /\ pr_source' = pr
              /\ f_result' = Done("Ok")
         ELSE /\ pr_source' = "none"
              /\ f_result' = Done("UnexpectedResponse")

\* get_js, not age restricted: js_url(watch_html) finds the script url or
\* fails, then get_html(&js_url) is sent
JsFromWatch ==
    /\ JoinStarted
    /\ js_pc = "init"
    /\ ~is_age_restricted
    /\ \/ /\ \E pr \in {"None", "watch"} : player_response' = pr
          /\ f_log' = Append(f_log, "send:js")
          /\ js_pc' = "js"
          /\ UNCHANGED <<f_pc, f_result>>
       \/ /\ JoinFail("UnexpectedResponse")
          /\ UNCHANGED <<player_response, f_log, js_pc>>
    /\ UNCHANGED <<f_op, api_pc, status, is_age_restricted, passed,
                   api_streaming_data, pr_source>>

\* get_js, age restricted: get_html(&embed_url) is sent
JsEmbedSend ==
    /\ JoinStarted
    /\ js_pc = "init"
    /\ is_age_restricted
    /\ f_log' = Append(f_log, "send:embed")
    /\ js_pc' = "embed"
    /\ UNCHANGED <<f_op, f_pc, api_pc, status, is_age_restricted, passed,
                   player_response, api_streaming_data, pr_source, f_result>>

\* the embed html arrives: js_url(embed_html), then get_html(&js_url); or
\* the GET or js_url fails
JsEmbedRecv ==
    /\ JoinStarted
    /\ js_pc = "embed"
    /\ \/ /\ \E pr \in {"None", "embed"} : player_response' = pr
          /\ f_log' = f_log \o <<"recv:embed", "send:js">>
          /\ js_pc' = "js"
          /\ UNCHANGED <<f_pc, f_result>>
       \/ /\ f_log' = Append(f_log, "recv:embed")
          /\ JoinFail("UnexpectedResponse")
          /\ UNCHANGED <<player_response, js_pc>>
       \/ /\ f_log' = Append(f_log, "fail:embed")
          /\ JoinFail("Request")
          /\ UNCHANGED <<player_response, js_pc>>
    /\ UNCHANGED <<f_op, api_pc, status, is_age_restricted, passed,
                   api_streaming_data, pr_source>>

\* the player script arrives, or its GET fails
JsRecv ==
    /\ JoinStarted
    /\ js_pc = "js"
    /\ \/ /\ f_log' = Append(f_log, "recv:js")
          /\ js_pc' = "done"
          /\ IF api_pc = "done"
             THEN Merge(player_response, api_streaming_data) /\ f_pc' = "done"
             ELSE UNCHANGED <<pr_source, f_result, f_pc>>
       \/ /\ f_log' = Append(f_log, "fail:js")
          /\ JoinFail("Request")
          /\ UNCHANGED <<js_pc, pr_source>>
    /\ UNCHANGED <<f_op, api_pc, status, is_age_restricted, passed,
                   player_response, api_streaming_data>>

\* get_video_info: request_api(POST, "player") is sent
ApiSend ==
    /\ JoinStarted
    /\ api_pc = "init"
    /\ f_log' = Append(f_log, "send:api")
    /\ api_pc' = "api"
    /\ UNCHANGED <<f_op, f_pc, js_pc, status, is_age_restricted, passed,
                   player_response, api_streaming_data, pr_source, f_result>>

\* the API answers with a PlayerResponse, with or without streaming_data;
\* or the POST fails; or the body is no PlayerResponse
ApiRecv ==
    /\ JoinStarted
    /\ api_pc = "api"
    /\ \/ /\ f_log' = Append(f_log, "recv:api")
          /\ api_pc' = "done"
          /\ \E sd \in BOOLEAN :
              /\ api_streaming_data' = sd
              /\ IF js_pc = "done"
                 THEN Merge(player_response, sd) /\ f_pc' = "done"
                 ELSE UNCHANGED <<pr_source, f_result, f_pc>>
       \/ /\ f_log' = Append(f_log, "fail:api")
          /\ \E kind \in {"Request", "JsonDeserialization"} : JoinFail(kind)
          /\ UNCHANGED <<api_pc, api_streaming_data, pr_source>>
    /\ UNCHANGED <<f_op, js_pc, status, is_age_restricted, passed, player_response>>

FNext ==
    \/ FStart /\ UNCHANGED notF
    \/ FWatchErr /\ UNCHANGED notF
    \/ FWatchOk /\ UNCHANGED notF
    \/ JsFromWatch /\ UNCHANGED notF
    \/ JsEmbedSend /\ UNCHANGED notF
    \/ JsEmbedRecv /\ UNCHANGED notF
    \/ JsRecv /\ UNCHANGED notF
    \/ ApiSend /\ UNCHANGED notF
    \/ ApiRecv /\ UNCHANGED notF

SpecFetch == FInit /\ [][FNext]_vars

(***************************************************************************)
(* VideoDescrambler::descramble.                                           *)
(***************************************************************************)
\* Option<T>
None == [some |-> FALSE, val |-> <<>>]
Some(v) == [some |-> TRUE, val |-> v]

\* A url is its query: a sequence of <<name, value>> pairs, a name being a
\* string and a value a sequence of characters.
\* Url::as_str, as a sequence of tokens: ?name=value&name=value...
RECURSIVE Render(_, _)
Render(url, k) ==
    IF k > Len(url) THEN <<>>
    ELSE <<IF k = 1 THEN "?" ELSE "&", url[k][1], "=">> \o url[k][2] \o Render(url, k + 1)

as_str(url) == Render(url, 1)

\* str::contains
Contains(str, pat) ==
    \E i \in 1..(Len(str) - Len(pat) + 1) : SubSeq(str, i, i + Len(pat) - 1) = pat

\* url.query_pairs_mut().append_pair(name, value)
append_pair(url, name, value) == Append(url, <<name, value>>)

\* url_already_contains_signature
url_already_contains_signature(url) ==
    \/ Contains(as_str(url), <<"signature">>)
    \/ Contains(as_str(url), <<"&", "sig", "=">>)
    \/ Contains(as_str(url), <<"&", "lsig", "=">>)

\* a swap that does not store the saved a[0]
Swap_one_way(a, n) == LET k == (n % Len(a)) + 1 IN [a EXCEPT ![1] = a[k]]

\* a splice that removes one element less
Splice_keeps_one(a, n) == IF n = 0 THEN a ELSE SubSeq(a, n, Len(a))

\* the three primitives of the cipher, on an array of characters
Reverse(a, n) == [i \in 1..Len(a) |-> a[Len(a) + 1 - i]]
Splice(a, n) == SubSeq(a, n + 1, Len(a))
Swap(a, n) == LET k == (n % Len(a)) + 1 IN [a EXCEPT ![1] = a[k], ![k] = a[1]]

\* the transform plan applied step by step
RECURSIVE ApplyPlan(_, _)
ApplyPlan(plan, a) ==
    IF plan = <<>> THEN a
    ELSE LET op == Head(plan)
             b == CASE op[1] = "reverse" -> Reverse(a, op[2])
                    [] op[1] = "splice" -> Splice(a, op[2])
                    [] op[1] = "swap" -> Swap(a, op[2])
         IN ApplyPlan(Tail(plan), b)

\* the player scripts: one that Cipher::from_js cannot parse, and one whose
\* transform plan is swap(1), reverse
Scripts == {"unparsable", "player"}
PlanOf(script) == << <<"swap", 1>>, <<"reverse", 0>> >>

\* Cipher::decrypt_signature, of the Cipher built from the script
decrypt_signature(script, sig) == ApplyPlan(PlanOf(script), sig)

\* the urls of the formats
Value == <<"X", "Y">>
Urls == {
    << <<"itag", Value>> >>,
    << <<"itag", Value>>, <<"sig", Value>> >>,
    << <<"sig", Value>>, <<"itag", Value>> >>,
    << <<"itag", Value>>, <<"lsig", Value>> >>,
    << <<"signature", Value>> >> }

\* the signatureCipher of a format as the server sends it: the url, and
\* either nothing more or a scrambled s with or without the name sp
Scrambled == <<"A", "B", "C">>
RawCiphers ==
    {[url |-> u, s |-> None, sp |-> "none"] : u \in Urls}
    \cup {[url |-> u, s |-> Some(Scrambled), sp |-> p] :
             u \in Urls, p \in {"none", "signature"}}

\* struct SignatureCipher { url, s }: what deserializing keeps
Deserialize(r) == [url |-> r.url, s |-> r.s]

\* what serde_qs makes of a parsable entry of adaptive_fmts_raw
ParsedEntry == [url |-> << <<"itag", Value>>, <<"sig", Value>> >>, s |-> None]

\* a loop body that signs every format, taking a missing s for an empty one
SignEvery(c) ==
    LET d == IF c.s.some THEN decrypt_signature(js, c.s.val) ELSE <<>>
    IN  [url |-> append_pair(c.url, "sig", d), s |-> Some(d)]

\* the body of apply_signature's loop for one format that it does not
\* reject: cipher.decrypt_signature(s) in place and append_pair("sig", s) when
\* s is Some, continue when it is None
SignOne(c) ==
    IF c.s.some
    THEN LET d == decrypt_signature(js, c.s.val)
         IN  [url |-> append_pair(c.url, "sig", d), s |-> Some(d)]
    ELSE c

\* the format is rejected: no s, and no signature in the url
Unsigned(c) == ~c.s.some /\ ~url_already_contains_signature(c.url)

\* formats.iter_mut().chain(adaptive_formats.iter_mut())
Chain == formats \o adaptive_formats

DInit ==
    /\ WIdle
    /\ GIdle
    /\ SIdle
    /\ DlIdle
    /\ ClIdle
    /\ PIdle
    /\ IdIdle
    /\ CIdle
    /\ FIdle
    /\ content_length = 0
    /\ d_pc = "start"
    /\ has_streaming_data \in BOOLEAN
    /\ \E n \in 0..MaxFormats : \E k \in 0..n :
        \E f \in [1..k -> RawCiphers], a \in [1..(n - k) -> RawCiphers] :
            /\ has_streaming_data \/ n = 0
            /\ raw = [formats |-> f, adaptive |-> a]
            /\ formats = [i \in 1..k |-> Deserialize(f[i])]
            /\ adaptive_formats = [i \in 1..(n - k) |-> Deserialize(a[i])]
    /\ adaptive_fmts_raw \in {None, Some(<<"good">>), Some(<<"good", "bad">>)}
    /\ js \in Scripts
    /\ d_i = 0
    /\ streams = <<>>
    /\ d_result = "none"

\* descramble: streaming_data.as_mut().ok_or(Error::Custom(..))?, then
\* apply_descrambler_adaptive_fmts when adaptive_fmts_raw is Some: every
\* entry is parsed and pushed to formats, the first that does not parse
\* ends descramble with the error of serde_qs
DTake ==
    /\ d_pc = "start"
    /\ IF ~has_streaming_data
       THEN /\ d_result' = "Custom"
            /\ d_pc' = "done"
            /\ UNCHANGED formats
       ELSE LET entries == adaptive_fmts_raw.val
                bad == {i \in 1..Len(entries) : entries[i] = "bad"}
                good == IF bad = {} THEN Len(entries)
                        ELSE (CHOOSE i \in bad : \A j \in bad : i <= j) - 1
            IN  /\ formats' = formats \o [i \in 1..good |-> ParsedEntry]
                /\ IF bad = {}
                   THEN d_pc' = "cipher" /\ UNCHANGED d_result
                   ELSE d_pc' = "done" /\ d_result' = "QueryDeserialization"
    /\ UNCHANGED <<dInput, adaptive_formats, d_i, streams>>

\* apply_signature: Cipher::from_js(js)?
DCipher ==
    /\ d_pc = "cipher"
    /\ IF js = "unparsable"
       THEN /\ d_result' = "UnexpectedResponse"
            /\ d_pc' = "done"
            /\ UNCHANGED d_i
       ELSE /\ d_i' = 1
            /\ d_pc' = "sign"
            /\ UNCHANGED d_result
    /\ UNCHANGED <<dInput, formats, adaptive_formats, streams>>

\* apply_signature: one turn of the loop over the formats
DSign ==
    /\ d_pc = "sign"
    /\ d_i <= Len(Chain)
    /\ IF Unsigned(Chain[d_i])
       THEN /\ d_result' = "UnexpectedResponse"
            /\ d_pc' = "done"
            /\ UNCHANGED <<formats, adaptive_formats, d_i>>
       ELSE /\ IF d_i <= Len(formats)
               THEN /\ formats' = [formats EXCEPT ![d_i] = SignOne(@)]
                    /\ UNCHANGED adaptive_formats
               ELSE /\ adaptive_formats' =
                           [adaptive_formats EXCEPT ![d_i - Len(formats)] = SignOne(@)]
                    /\ UNCHANGED formats
            /\ d_i' = d_i + 1
            /\ UNCHANGED <<d_pc, d_result>>
    /\ UNCHANGED <<dInput, streams>>

\* initialize_streams: formats.drain(..).chain(adaptive_formats.drain(..)),
\* one Stream::from_raw_format per format
DStreams ==
    /\ d_pc = "sign"
    /\ d_i > Len(Chain)
    /\ streams' = Chain
    /\ formats' = <<>>
    /\ adaptive_formats' = <<>>
    /\ d_result' = "Ok"
    /\ d_pc' = "done"
    /\ UNCHANGED <<dInput, d_i>>

DNext ==
    \/ DTake /\ UNCHANGED notD
    \/ DCipher /\ UNCHANGED notD
    \/ DSign /\ UNCHANGED notD
    \/ DStreams /\ UNCHANGED notD

SpecDescramble == DInit /\ [][DNext]_vars

(***************************************************************************)
(* Two downloads that run concurrently.                                    *)
(***************************************************************************)
\* the file name a download writes to: download and download_to_dir name
\* the file after the video id, download_to takes the caller's path
FileName(c) == IF c.api = "download_to" THEN c.name ELSE c.video_id

\* the path handed to internal_download_to: internal_download makes it
\* relative to the working directory, internal_download_to_dir joins dir
PathOf(c) == <<IF c.api = "download" THEN "." ELSE c.dir, FileName(c)>>

\* the calls of the first Stream, a Stream of Video "a"
CallsOfA ==
    {[api |-> "download", video_id |-> "a", dir |-> ".", name |-> "x"]}
    \cup {[api |-> "download_to_dir", video_id |-> "a", dir |-> d, name |-> "x"] :
             d \in Dirs}
    \cup {[api |-> "download_to", video_id |-> "a", dir |-> "d", name |-> n] :
             n \in Names}

\* the calls of the second Stream, of the same Video or of another one
CallsOfAny ==
    CallsOfA \cup {[c EXCEPT !.video_id = "b"] : c \in CallsOfA}

\* the byte a hole of a file reads as
Hole == <<0, 0>>

\* the k-th byte Stream s writes
PByte(s, k) == <<s, k>>

\* a write of chunk at offset off of a file: the bytes before off stay, a gap
\* between the end of the file and off reads as holes
WriteAt(bytes, off, chunk) ==
    LET end == off + Len(chunk)
        len == IF Len(bytes) > end THEN Len(bytes) ELSE end
    IN [k \in 1..len |->
            IF k > off /\ k <= end THEN chunk[k - off]
            ELSE IF k <= Len(bytes) THEN bytes[k]
            ELSE Hole]

PInit ==
    /\ WIdle
    /\ GIdle
    /\ SIdle
    /\ DlIdle
    /\ ClIdle
    /\ FIdle
    /\ DIdle
    /\ IdIdle
    /\ CIdle
    /\ content_length = 0
    /\ p_call \in {c \in [PairStreams -> CallsOfAny] : c[1] \in CallsOfA}
    /\ dl = [s \in PairStreams |-> PStart]
    /\ fs = [q \in Paths |-> 0]
    /\ ino = [s \in PairStreams |-> <<>>]

\* File::create(&path): makes the file, or truncates the file the path names
PCreate(s) ==
    /\ dl[s].pc = "create"
    /\ LET path == PathOf(p_call[s])
           i == IF fs[path] = 0 THEN s ELSE fs[path]
       IN \/ /\ fs' = [fs EXCEPT ![path] = i]
             /\ ino' = [ino EXCEPT ![i] = <<>>]
             /\ dl' = [dl EXCEPT ![s] = [@ EXCEPT !.pc = "get", !.handle = i,
                                                  !.aloneFile = TRUE]]
          \/ /\ dl' = [dl EXCEPT ![s] = [@ EXCEPT !.pc = "done", !.result = "IO",
                                                  !.alone = "IO"]]
             /\ UNCHANGED <<fs, ino>>
    /\ UNCHANGED p_call

\* what internal_download_to and download_full_seq do with an error e
PFail(s, e) ==
    IF dl[s].mode = "direct"
    THEN IF IsNotFound(e)
         THEN [dl[s] EXCEPT !.mode = "seq", !.sq = 0, !.pc = "get"]
         ELSE [dl[s] EXCEPT !.error = e, !.handle = 0, !.pc = "remove",
                            !.alone = e, !.aloneFile = FALSE]
    ELSE [dl[s] EXCEPT !.result = e, !.alone = e, !.pc = "done"]

\* Stream::get fails
PRespondErr(s) ==
    /\ dl[s].pc = "get"
    /\ \E e \in {"Transport", "Status404", "Status500"} :
        dl' = [dl EXCEPT ![s] = PFail(s, e)]
    /\ UNCHANGED <<p_call, fs, ino>>

\* Stream::get succeeds; in download_full_seq the sq=0 response carries the
\* Segment-Count, or extract_segment_count fails
PRespondOk(s) ==
    /\ dl[s].pc = "get"
    /\ IF dl[s].mode = "seq" /\ dl[s].sq = 0
       THEN \/ \E n \in 0..PairSeg :
                 dl' = [dl EXCEPT ![s] = [@ EXCEPT !.segment_count = n,
                                                   !.got = 0, !.pc = "body"]]
            \/ dl' = [dl EXCEPT ![s] = [@ EXCEPT !.result = "UnexpectedResponse",
                                                 !.alone = "UnexpectedResponse",
                                                 !.pc = "done"]]
       ELSE dl' = [dl EXCEPT ![s] = [@ EXCEPT !.got = 0, !.pc = "body"]]
    /\ UNCHANGED <<p_call, fs, ino>>

\* write_stream_to_file: a chunk is written at the offset of the File handle
PChunk(s) ==
    /\ dl[s].pc = "body"
    /\ \E n \in 1..MaxChunk :
        /\ dl[s].got + n <= PairBody
        /\ LET chunk == [k \in 1..n |-> PByte(s, dl[s].off + k)]
               i == dl[s].handle
           IN ino' = [ino EXCEPT ![i] = WriteAt(@, dl[s].off, chunk)]
        /\ dl' = [dl EXCEPT ![s] = [@ EXCEPT !.got = @ + n, !.off = @ + n]]
    /\ UNCHANGED <<p_call, fs>>

\* write_stream_to_file: the stream yields an error, or write_all fails
PChunkErr(s) ==
    /\ dl[s].pc = "body"
    /\ \E e \in {"Transport", "IO"} : dl' = [dl EXCEPT ![s] = PFail(s, e)]
    /\ UNCHANGED <<p_call, fs, ino>>

\* write_stream_to_file: the stream ends
PBodyEnd(s) ==
    /\ dl[s].pc = "body"
    /\ IF dl[s].mode = "seq" /\ dl[s].sq + 1 \in SeqRange(dl[s].segment_count)
       THEN dl' = [dl EXCEPT ![s] = [@ EXCEPT !.sq = @ + 1, !.pc = "get"]]
       ELSE dl' = [dl EXCEPT ![s] = [@ EXCEPT !.result = "Ok", !.alone = "Ok",
                                              !.pc = "done"]]
    /\ UNCHANGED <<p_call, fs, ino>>

\* tokio::fs::remove_file(path).await?; Err(e): the path is unlinked, or the
\* removal fails because the path names no file
PRemove(s) ==
    /\ dl[s].pc = "remove"
    /\ LET path == PathOf(p_call[s]) IN
        IF fs[path] # 0
        THEN /\ fs' = [fs EXCEPT ![path] = 0]
             /\ dl' = [dl EXCEPT ![s] = [@ EXCEPT !.result = dl[s].error,
                                                     !.pc = "done"]]
        ELSE /\ dl' = [dl EXCEPT ![s] = [@ EXCEPT !.result = "IO", !.pc = "done"]]
             /\ UNCHANGED fs
    /\ UNCHANGED <<p_call, ino>>

PNext ==
    \E s \in PairStreams :
        \/ PCreate(s) /\ UNCHANGED notP
        \/ PRespondErr(s) /\ UNCHANGED notP
        \/ PRespondOk(s) /\ UNCHANGED notP
        \/ PChunk(s) /\ UNCHANGED notP
        \/ PChunkErr(s) /\ UNCHANGED notP
        \/ PBodyEnd(s) /\ UNCHANGED notP
        \/ PRemove(s) /\ UNCHANGED notP

SpecPair == PInit /\ [][PNext]_vars

(***************************************************************************)
(* Id: the video identifier and the patterns it is parsed with.            *)
(***************************************************************************)
\* the characters of the model's strings
Lower ==
    {"a", "b", "c", "d", "e", "f", "g", "h", "i", "j", "k", "l", "m", "n",
     "o", "p", "q", "r", "s", "t", "u", "v", "w", "x", "y", "z"}
Upper ==
    {"A", "B", "C", "D", "E", "F", "G", "H", "I", "J", "K", "L", "M", "N",
     "O", "P", "Q", "R", "S", "T", "U", "V", "W", "X", "Y", "Z"}
Digits == {"0", "1", "2", "3", "4", "5", "6", "7", "8", "9"}
Punct == {"_", "-", ":", "/", ".", "?", "=", "&", "\\", "!", "%", "*", "+", "\n"}

\* [a-zA-Z0-9_-]
IdClass == Lower \cup Upper \cup Digits \cup {"_", "-"}
\* \w
WordClass == Lower \cup Upper \cup Digits \cup {"_"}
\* . : every character but the line feed
DotClass == (Lower \cup Upper \cup Digits \cup Punct) \ {"\n"}

\* {11}: the length of an id
IdLen == 11

StartsWith(s, pre) == Len(s) >= Len(pre) /\ SubSeq(s, 1, Len(pre)) = pre

Drop(s, n) == SubSeq(s, n + 1, Len(s))

\* The regex engine tries the ways to match in order of preference.  A
\* matcher maps the remainders of the input still to be matched, in that
\* order, to the remainders after it.
\* a literal
Lit(alts, lit) ==
    LET Has(t) == StartsWith(t, lit)
        keep == SelectSeq(alts, Has)
    IN [i \in 1..Len(keep) |-> Drop(keep[i], Len(lit))]

\* one character of a class
Class(alts, C) ==
    LET Has(t) == t # <<>> /\ t[1] \in C
        keep == SelectSeq(alts, Has)
    IN [i \in 1..Len(keep) |-> Tail(keep[i])]

\* lit? : greedy, the match with the literal is preferred
OptLit(alts, lit) ==
    Concat([i \in 1..Len(alts) |-> Lit(<<alts[i]>>, lit) \o <<alts[i]>>])

\* C? for a class C
OptClass(alts, C) ==
    Concat([i \in 1..Len(alts) |-> Class(<<alts[i]>>, C) \o <<alts[i]>>])

\* (https?://)?
Scheme(alts) ==
    Concat([i \in 1..Len(alts) |->
        Lit(OptLit(Lit(<<alts[i]>>, <<"h", "t", "t", "p">>), <<"s">>), <<":", "/", "/">>)
            \o <<alts[i]>>])

\* (www\.)?youtube.\w\w\w?
Host(alts) ==
    OptClass(Class(Class(Class(Lit(OptLit(alts, <<"w", "w", "w", ".">>), <<"y", "o", "u", "t", "u", "b", "e">>),
                               DotClass), WordClass), WordClass), WordClass)

\* C* followed by the end of the text
AllIn(t, C) == \A k \in 1..Len(t) : t[k] \in C

\* (?P<id>[a-zA-Z0-9_-]{11}) and what follows it: the first remainder, in
\* order of preference, that begins with an id after which TailOk holds;
\* None when there is none
Capture(alts, TailOk(_)) ==
    LET Has(t) == /\ Len(t) >= IdLen
                  /\ AllIn(SubSeq(t, 1, IdLen), IdClass)
                  /\ TailOk(Drop(t, IdLen))
        keep == SelectSeq(alts, Has)
    IN IF keep = <<>> THEN None ELSE Some(SubSeq(keep[1], 1, IdLen))

\* $ right after the id
AtEnd(t) == t = <<>>

\* (&.*)?$
WatchTail(t) == t = <<>> \/ (t[1] = "&" /\ AllIn(Tail(t), DotClass))

\* \\?(\?.*)?$
EmbedTail(t) ==
    LET QueryOk(u) == u = <<>> \/ (u[1] = "?" /\ AllIn(Tail(u), DotClass)) IN
        \/ t # <<>> /\ t[1] = "\\" /\ QueryOk(Tail(t))
        \/ QueryOk(t)

\* ^(https?://)?(www\.)?youtube.\w\w\w?/watch\?v=(?P<id>..)(&.*)?$
WATCH_URL_PATTERN(text) ==
    Capture(Lit(Host(Scheme(<<text>>)), <<"/", "w", "a", "t", "c", "h", "?", "v", "=">>), WatchTail)

\* ^(https?://)?(www\.)?youtube.\w\w\w?/embed/(?P<id>..)\\?(\?.*)?$
EMBED_URL_PATTERN(text) ==
    Capture(Lit(Host(Scheme(<<text>>)), <<"/", "e", "m", "b", "e", "d", "/">>), EmbedTail)

\* ^(https?://)?youtu\.be/(?P<id>..)$
SHARE_URL_PATTERN(text) ==
    Capture(Lit(Scheme(<<text>>), <<"y", "o", "u", "t", "u", ".", "b", "e", "/">>), AtEnd)

\* the pattern without its $ anchor
AnyTail(t) == TRUE
ID_PATTERN_unanchored(text) == Capture(<<text>>, AnyTail)

\* ^(?P<id>[a-zA-Z0-9_-]{11})$
ID_PATTERN(text) == Capture(<<text>>, AtEnd)

\* ID_PATTERNS, in the order find_map tries them
ID_PATTERNS(text) ==
    <<WATCH_URL_PATTERN(text), EMBED_URL_PATTERN(text), SHARE_URL_PATTERN(text),
      ID_PATTERN(text)>>

\* Id::from_raw: the id captured by the first pattern that matches
from_raw(text) ==
    LET IsSome(c) == c.some
        found == SelectSeq(ID_PATTERNS(text), IsSome)
    IN IF found = <<>> THEN BadIdFormat ELSE IdOk(found[1].val)

\* Id::from_str: ID_PATTERN.is_match(id)
from_str(text) == IF ID_PATTERN(text).some THEN IdOk(text) ELSE BadIdFormat

\* form_urlencoded::byte_serialize, as Url::parse_with_params applies it to
\* each character of a query value
byte_serialize(c) ==
    IF c \in Lower \cup Upper \cup Digits \cup {"*", "-", ".", "_"} THEN <<c>>
    ELSE CASE c = "/" -> <<"%", "2", "F">>
           [] c = "?" -> <<"%", "3", "F">>
           [] c = "=" -> <<"%", "3", "D">>
           [] c = "&" -> <<"%", "2", "6">>
           [] c = ":" -> <<"%", "3", "A">>
           [] c = "!" -> <<"%", "2", "1">>
           [] c = "%" -> <<"%", "2", "5">>
           [] c = "+" -> <<"%", "2", "B">>
           [] c = "\\" -> <<"%", "5", "C">>
           [] c = "\n" -> <<"%", "0", "A">>

\* the percent encoding of a path segment, as PathSegmentsMut::push applies it
path_segment(c) ==
    CASE c = "/" -> <<"%", "2", "F">>
      [] c = "?" -> <<"%", "3", "F">>
      [] c = "%" -> <<"%", "2", "5">>
      [] c = "\n" -> <<"%", "0", "A">>
      [] OTHER -> <<c>>

\* Id::watch_url: Url::parse_with_params("https://youtube.com/watch?", [("v", id)])
watch_url(id) ==
    <<"h", "t", "t", "p", "s", ":", "/", "/", "y", "o", "u", "t", "u", "b", "e", ".", "c", "o", "m", "/", "w", "a", "t", "c", "h", "?">>
        \o <<"v", "=">> \o Concat([k \in 1..Len(id) |-> byte_serialize(id[k])])

\* Id::embed_url: the id pushed as a path segment of https://youtube.com/embed
embed_url(id) ==
    <<"h", "t", "t", "p", "s", ":", "/", "/", "y", "o", "u", "t", "u", "b", "e", ".", "c", "o", "m", "/", "e", "m", "b", "e", "d">>
        \o <<"/">> \o Concat([k \in 1..Len(id) |-> path_segment(id[k])])

\* a share url with an empty segment pushed after the id
share_url_trailing_slash(id) ==
    <<"h", "t", "t", "p", "s", ":", "/", "/", "y", "o", "u", "t", "u", ".", "b", "e">>
        \o <<"/">> \o Concat([k \in 1..Len(id) |-> path_segment(id[k])]) \o <<"/">>

\* Id::share_url: the id pushed as a path segment of https://youtu.be
share_url(id) ==
    <<"h", "t", "t", "p", "s", ":", "/", "/", "y", "o", "u", "t", "u", ".", "b", "e">>
        \o <<"/">> \o Concat([k \in 1..Len(id) |-> path_segment(id[k])])

\* the url of the given form
UrlOf(form, id) ==
    CASE form = "watch" -> watch_url(id)
      [] form = "embed" -> embed_url(id)
      [] form = "share" -> share_url(id)

\* The raw inputs: a stem, 1..MaxTail free characters, and around them
\* what a url has before and after the id, well formed or not.
Stem == <<"n", "o", "t", "-", "a", "-", "v", "i", "d">>
FreeChars == {"e", "o", "Z", "5", "!"}
Bodies == UNION {{Stem \o t : t \in [1..n -> FreeChars]} : n \in 1..MaxTail}
Schemes == {<<>>, <<"h", "t", "t", "p", ":", "/", "/">>,
            <<"h", "t", "t", "p", "s", ":", "/", "/">>,
            <<"f", "t", "p", ":", "/", "/">>}
Hosts == {<<"y", "o", "u", "t", "u", "b", "e", ".", "c", "o", "m">>,
          <<"y", "o", "u", "t", "u", "b", "e", ".", "c">>}
Kinds == {<<"/", "w", "a", "t", "c", "h", "?", "v", "=">>, <<"/", "e", "m", "b", "e", "d", "/">>}
Befores ==
    {<<>>}
    \cup {sc \o w \o h \o k : sc \in Schemes, w \in {<<>>, <<"w", "w", "w", ".">>},
                              h \in Hosts, k \in Kinds}
    \cup {sc \o w \o <<"y", "o", "u", "t", "u", ".", "b", "e", "/">> :
             sc \in Schemes, w \in {<<>>, <<"w", "w", "w", ".">>}}
Afters == {<<>>, <<"&", "t", "=", "1">>, <<"?", "t", "=", "1">>, <<"\\">>, <<"/">>,
           <<"\n">>}
RawInputs == {b \o body \o a : b \in Befores, body \in Bodies, a \in Afters}

IdInit ==
    /\ WIdle
    /\ GIdle
    /\ SIdle
    /\ DlIdle
    /\ ClIdle
    /\ PIdle
    /\ CIdle
    /\ FIdle
    /\ DIdle
    /\ content_length = 0
    /\ id_pc = "raw"
    /\ id_raw \in RawInputs
    /\ id_res = BadIdFormat
    /\ id_form = "none"
    /\ id_again = BadIdFormat

\* Id::from_raw(raw)
IdFromRaw ==
    /\ id_pc = "raw"
    /\ id_res' = from_raw(id_raw)
    /\ id_pc' = "parsed"
    /\ UNCHANGED <<id_raw, id_form, id_again>>

\* Id::from_str(raw)
IdFromStr ==
    /\ id_pc = "raw"
    /\ id_res' = from_str(id_raw)
    /\ id_pc' = "checked"
    /\ UNCHANGED <<id_raw, id_form, id_again>>

\* VideoFetcher::from_url(&id.watch_url()) and the like: the Id makes a url,
\* and Id::from_raw parses url.as_str()
IdFromUrl ==
    /\ id_pc \in {"parsed", "checked"}
    /\ id_res.ok
    /\ \E form \in {"watch", "embed", "share"} :
        /\ id_form' = form
        /\ id_again' = from_raw(UrlOf(form, id_res.id))
    /\ id_pc' = "again"
    /\ UNCHANGED <<id_raw, id_res>>

IdNext ==
    \/ IdFromRaw /\ UNCHANGED notId
    \/ IdFromStr /\ UNCHANGED notId
    \/ IdFromUrl /\ UNCHANGED notId

SpecId == IdInit /\ [][IdNext]_vars

(***************************************************************************)
(* The cipher: a transform plan applied to one scrambled signature, a step *)
(* at a time.                                                              *)
(***************************************************************************)
\* the signature and the plan of the worked example
ExampleSig == <<"A", "B", "C", "D", "E", "F", "G", "H", "I", "J">>
ExamplePlan == << <<"swap", 3>>, <<"reverse", 17>>, <<"swap", 2>> >>

Ops == {"reverse", "splice", "swap"}
Steps == Ops \X (0..MaxArg)
Sigs == {SubSeq(ExampleSig, 1, n) : n \in 0..MaxSig} \cup {ExampleSig}
Plans == UNION {[1..n -> Steps] : n \in 0..MaxPlan} \cup {ExamplePlan}

\* the step has a defined result on the array: splice has n elements to
\* remove, and swap has a length to take n modulo
Applicable(step, a) ==
    CASE step[1] = "reverse" -> TRUE
      [] step[1] = "splice" -> step[2] <= Len(a)
      [] step[1] = "swap" -> Len(a) > 0

CInit ==
    /\ WIdle
    /\ GIdle
    /\ SIdle
    /\ DlIdle
    /\ ClIdle
    /\ PIdle
    /\ IdIdle
    /\ FIdle
    /\ DIdle
    /\ content_length = 0
    /\ c_pc = "run"
    /\ c_s \in Sigs
    /\ c_plan \in Plans
    /\ c_k = 0
    /\ c_a = c_s

\* the next step of the plan is op, and it is applied to the array
CStep(op) ==
    /\ c_pc = "run"
    /\ c_k < Len(c_plan)
    /\ c_plan[c_k + 1][1] = op
    /\ Applicable(c_plan[c_k + 1], c_a)
    /\ c_a' = ApplyPlan(<<c_plan[c_k + 1]>>, c_a)
    /\ c_k' = c_k + 1
    /\ UNCHANGED <<c_pc, c_s, c_plan>>

CReverse == CStep("reverse")
CSplice == CStep("splice")
CSwap == CStep("swap")

\* the next step has no defined result on the array
CUndefined ==
    /\ c_pc = "run"
    /\ c_k < Len(c_plan)
    /\ ~Applicable(c_plan[c_k + 1], c_a)
    /\ c_pc' = "undefined"
    /\ UNCHANGED <<c_s, c_plan, c_k, c_a>>

\* every step is applied: return a.join("")
CJoin ==
    /\ c_pc = "run"
    /\ c_k = Len(c_plan)
    /\ c_pc' = "done"
    /\ UNCHANGED <<c_s, c_plan, c_k, c_a>>

CNext ==
    \/ CReverse /\ UNCHANGED notC
    \/ CSplice /\ UNCHANGED notC
    \/ CSwap /\ UNCHANGED notC
    \/ CUndefined /\ UNCHANGED notC
    \/ CJoin /\ UNCHANGED notC

SpecCipher == CInit /\ [][CNext]_vars


(***************************************************************************)
(* The scanners for a json object: json_object and is_json_object_end of   *)
(* fetcher.rs (parser.rs has the same two under other names), and           *)
(* find_object_from_startpoint of helper.rs.                                *)
(***************************************************************************)
\* the bytes of the texts: the delimiters, the backslash, and x for any other
\* ASCII byte
ScanBytes == {"{", "}", "[", "]", "\"", "\\", "x"}

\* longer texts: with a slash, a blank, and the two bytes hi lo of one
\* character that is not ASCII
ScanExamples == {
    <<"x", "{", "\"", "x", "\\", "\"", "}", "\"", "}", "x", "}">>,
    <<"{", "\"", "\\", "hi", "lo", "}", "\"", "}">>,
    <<"{", "\"", "/", "[", "\"", " ", "}", "x">>,
    <<"hi", "lo", "{", "[", "\"", "]", "\\", "\\", "\"", "]", "}", "hi", "lo">>,
    <<"[", "x", "{", "\"", "{", "\"", "}", "]", "{", "}">> }

ScanInputs == UNION {[1..n -> ScanBytes] : n \in 0..MaxScan} \cup ScanExamples

\* str::is_char_boundary(k), k counted from 0: the byte after the first k
\* bytes is not inside a character
is_char_boundary(t, k) == k = 0 \/ k = Len(t) \/ (k < Len(t) /\ t[k + 1] # "lo")

RECURSIVE trim_start_matches_to_opener(_)
\* a trim that stops at the first { or [
trim_start_matches_to_opener(t) ==
    IF t = <<>> \/ Head(t) \in {"{", "["} THEN t
    ELSE trim_start_matches_to_opener(Tail(t))

RECURSIVE trim_start_matches(_)
\* html.trim_start_matches(|c| c != '{')
trim_start_matches(t) ==
    IF t = <<>> \/ Head(t) = "{" THEN t ELSE trim_start_matches(Tail(t))

\* stack.pop() and stack.push(c)
Pop(stk) == SubSeq(stk, 1, Len(stk) - 1)
Push(stk, c) == Append(stk, c)

\* a scanner that takes { [ and " for openers inside a string too
is_json_object_end_in_strings(curr_char, skp, stk) ==
    IF skp THEN [skip |-> FALSE, stack |-> stk, end |-> FALSE]
    ELSE LET context == Last(stk)
             r == CASE curr_char = "}" /\ context = "{" -> [skip |-> FALSE, stack |-> Pop(stk)]
                    [] curr_char = "]" /\ context = "[" -> [skip |-> FALSE, stack |-> Pop(stk)]
                    [] curr_char = "\"" /\ context = "\"" -> [skip |-> FALSE, stack |-> Pop(stk)]
                    [] curr_char = "\\" /\ context = "\"" -> [skip |-> TRUE, stack |-> stk]
                    [] curr_char \in {"{", "[", "\""} -> [skip |-> FALSE, stack |-> Push(stk, curr_char)]
                    [] OTHER -> [skip |-> FALSE, stack |-> stk]
         IN  [skip |-> r.skip, stack |-> r.stack, end |-> r.stack = <<>>]

\* a scanner whose closers } and ] close whatever context is open
is_json_object_end_any_closer(curr_char, skp, stk) ==
    IF skp THEN [skip |-> FALSE, stack |-> stk, end |-> FALSE]
    ELSE LET context == Last(stk)
             r == CASE curr_char \in {"}", "]"} /\ context # "\"" -> [skip |-> FALSE, stack |-> Pop(stk)]
                    [] curr_char = "\"" /\ context = "\"" -> [skip |-> FALSE, stack |-> Pop(stk)]
                    [] curr_char = "\\" /\ context = "\"" -> [skip |-> TRUE, stack |-> stk]
                    [] curr_char = "{" /\ context # "\"" -> [skip |-> FALSE, stack |-> Push(stk, "{")]
                    [] curr_char = "[" /\ context # "\"" -> [skip |-> FALSE, stack |-> Push(stk, "[")]
                    [] curr_char = "\"" /\ context # "\"" -> [skip |-> FALSE, stack |-> Push(stk, "\"")]
                    [] OTHER -> [skip |-> FALSE, stack |-> stk]
         IN  [skip |-> r.skip, stack |-> r.stack, end |-> r.stack = <<>>]

\* is_json_object_end(curr_char, &mut skip, &mut stack), the stack not being
\* empty: the new skip, the new stack and the bool returned.  The arms of the
\* match are tried in the order of the code.
is_json_object_end(curr_char, skp, stk) ==
    IF skp THEN [skip |-> FALSE, stack |-> stk, end |-> FALSE]
    ELSE LET context == Last(stk)
             r == CASE curr_char = "}" /\ context = "{" -> [skip |-> FALSE, stack |-> Pop(stk)]
                    [] curr_char = "]" /\ context = "[" -> [skip |-> FALSE, stack |-> Pop(stk)]
                    [] curr_char = "\"" /\ context = "\"" -> [skip |-> FALSE, stack |-> Pop(stk)]
                    [] curr_char = "\\" /\ context = "\"" -> [skip |-> TRUE, stack |-> stk]
                    [] curr_char = "{" /\ context # "\"" -> [skip |-> FALSE, stack |-> Push(stk, "{")]
                    [] curr_char = "[" /\ context # "\"" -> [skip |-> FALSE, stack |-> Push(stk, "[")]
                    [] curr_char = "\"" /\ context # "\"" -> [skip |-> FALSE, stack |-> Push(stk, "\"")]
                    [] OTHER -> [skip |-> FALSE, stack |-> stk]
         IN  [skip |-> r.skip, stack |-> r.stack, end |-> r.stack = <<>>]

\* context_closers of find_object_from_startpoint
context_closers(c) ==
    CASE c = "{" -> "}" [] c = "[" -> "]" [] c = "\"" -> "\"" [] c = "/" -> "/"

\* char::is_whitespace, on the bytes of the texts
is_whitespace(c) == c = " "

\* the characters after which a / begins a JavaScript regex
RegexBefore == {"(", ",", "=", ":", "[", "!", "&", "|", "?", "{", "}", ";"}

RECURSIVE HLoop(_, _, _, _, _)
\* the while loop of find_object_from_startpoint, i counted from 0: the i it
\* ends with.  curr is the curr_char of the turn before, "" for None.
HLoop(chars, i, stk, last_char, curr) ==
    IF i >= Len(chars) \/ stk = <<>> THEN i
    ELSE LET last == IF curr # "" /\ ~is_whitespace(curr) THEN curr ELSE last_char
             c == chars[i + 1]
             curr_context == Last(stk)
         IN  IF c = context_closers(curr_context)
             THEN HLoop(chars, i + 1, Pop(stk), last, c)
             ELSE IF curr_context \in {"\"", "/"}
                  THEN IF c = "\\"
                       THEN HLoop(chars, i + 2, stk, last, c)
                       ELSE HLoop(chars, i + 1, stk, last, c)
                  ELSE IF c \in {"{", "[", "\"", "/"}
                          /\ ~(c = "/" /\ last \notin RegexBefore)
                       THEN HLoop(chars, i + 1, Push(stk, c), last, c)
                       ELSE HLoop(chars, i + 1, stk, last, c)

\* chars.iter().take(n)
Take(chars, n) == SubSeq(chars, 1, IF n < Len(chars) THEN n ELSE Len(chars))

\* find_object_from_startpoint(html, 0): None is the kind "None"
find_object_from_startpoint(chars) ==
    IF chars = <<>> \/ chars[1] \notin {"{", "["}
    THEN [kind |-> "None", val |-> <<>>]
    ELSE Found(Take(chars, HLoop(chars, 1, <<chars[1]>>, "{", "")))

SInit ==
    /\ WIdle
    /\ GIdle
    /\ DlIdle
    /\ ClIdle
    /\ PIdle
    /\ IdIdle
    /\ CIdle
    /\ FIdle
    /\ DIdle
    /\ content_length = 0
    /\ s_pc = "start"
    /\ s_in \in ScanInputs
    /\ s_html = <<>>
    /\ s_i = 0
    /\ s_stack = <<>>
    /\ s_skip = FALSE
    /\ s_res = Unscanned
    /\ h_res = Unscanned

\* json_object: trim_start_matches, the check for an empty rest, and the
\* stack, the flag and the iterator (enumerate().skip(1)) set up
ScTrim ==
    /\ s_pc = "start"
    /\ s_html' = trim_start_matches(s_in)
    /\ IF s_html' = <<>>
       THEN /\ s_res' = Internal
            /\ s_pc' = "done"
            /\ UNCHANGED <<s_stack, s_i>>
       ELSE /\ s_stack' = <<"{">>
            /\ s_i' = 2
            /\ s_pc' = "scan"
            /\ UNCHANGED s_res
    /\ UNCHANGED <<s_in, s_skip, h_res>>

\* find calls is_json_object_end on the next byte; stack.last().expect(..)
\* panics on an empty stack
ScByte ==
    /\ s_pc = "scan"
    /\ s_i <= Len(s_html)
    /\ IF ~s_skip /\ s_stack = <<>>
       THEN /\ s_res' = Panicked
            /\ s_pc' = "done"
            /\ UNCHANGED <<s_i, s_stack, s_skip>>
       ELSE LET r == is_json_object_end(s_html[s_i], s_skip, s_stack)
            IN  /\ s_skip' = r.skip
                /\ s_stack' = r.stack
                /\ IF r.end
                   THEN s_pc' = "found" /\ UNCHANGED s_i
                   ELSE s_i' = s_i + 1 /\ UNCHANGED s_pc
                /\ UNCHANGED s_res
    /\ UNCHANGED <<s_in, s_html, h_res>>

\* the iterator is at its end: find returns None, and
\* ok_or(Error::Internal(..))? returns the error
ScNotFound ==
    /\ s_pc = "scan"
    /\ s_i > Len(s_html)
    /\ s_res' = Internal
    /\ s_pc' = "done"
    /\ UNCHANGED <<s_in, s_html, s_i, s_stack, s_skip, h_res>>

\* html.get(..=i).expect(..): the index i of the code is s_i - 1, and get
\* is None when i + 1 is no char boundary
ScGet ==
    /\ s_pc = "found"
    /\ s_res' = IF is_char_boundary(s_html, s_i)
                THEN Found(SubSeq(s_html, 1, s_i))
                ELSE Panicked
    /\ s_pc' = "done"
    /\ UNCHANGED <<s_in, s_html, s_i, s_stack, s_skip, h_res>>

\* find_object_from_startpoint on the same text
HFind ==
    /\ s_pc = "done"
    /\ h_res' = find_object_from_startpoint(s_in)
    /\ s_pc' = "helper"
    /\ UNCHANGED <<s_in, s_html, s_i, s_stack, s_skip, s_res>>

SNext ==
    \/ ScTrim /\ UNCHANGED notS
    \/ ScByte /\ UNCHANGED notS
    \/ ScNotFound /\ UNCHANGED notS
    \/ ScGet /\ UNCHANGED notS
    \/ HFind /\ UNCHANGED notS

SpecScan == SInit /\ [][SNext]_vars


(***************************************************************************)
(* get_ytplayer_config: the search of the watch html for the initial       *)
(* player response.                                                        *)
(***************************************************************************)
\* The html is a sequence of tokens: a text matched by one of the three
\* patterns; a { that opens an object that parses as a PlayerResponse ("R"),
\* one that parses as {args: {player_response}} ("A"), one that is balanced
\* and parses as neither ("J"), and one that is never closed ("U"); and text
\* without a { ("x").
PatternTokens == {"ytplayer.config", "ytInitialPlayerResponse", "yt.setConfig"}
ObjectTokens == {"R", "A", "J", "U"}
HtmlTokens == PatternTokens \cup ObjectTokens \cup {"x"}

HtmlExamples == {
    <<"yt.setConfig", "R", "ytplayer.config", "J", "ytInitialPlayerResponse">>,
    <<"ytplayer.config", "x", "ytInitialPlayerResponse", "U", "yt.setConfig">> }

Htmls == UNION {[1..n -> HtmlTokens] : n \in 0..MaxHtml} \cup HtmlExamples

\* a CONFIG_PATTERNS that begins with ytInitialPlayerResponse
CONFIG_PATTERNS_swapped == <<"ytInitialPlayerResponse", "ytplayer.config", "yt.setConfig">>

\* CONFIG_PATTERNS, in the order of the array
CONFIG_PATTERNS == <<"ytplayer.config", "ytInitialPlayerResponse", "yt.setConfig">>

\* the place of the first token of html from place k on that is in set, 0
\* when there is none
FindFrom(html, k, set) ==
    LET at == {j \in k..Len(html) : html[j] \in set}
    IN  IF at = {} THEN 0 ELSE CHOOSE j \in at : \A m \in at : j <= m

\* regex.find(html): the place of the leftmost match, 0 for None
regex_find(html, pattern) == FindFrom(html, 1, {pattern})

\* json_object of the html behind place k: the place of the object it
\* returns, 0 for an error (no { at all, or a first { that is never closed)
json_object_behind(html, k) ==
    LET j == FindFrom(html, k + 1, ObjectTokens)
    IN  IF j = 0 \/ html[j] = "U" THEN 0 ELSE j

\* deserialize_ytplayer_config of the object at place j: it is a
\* PlayerResponse, or the player_response of its args
deserialize_ytplayer_config(html, j) == html[j] \in {"R", "A"}

\* the PlayerResponse of the object at place j
ConfigAt(j) == [kind |-> "Ok", at |-> j]

GInit ==
    /\ WIdle
    /\ DlIdle
    /\ ClIdle
    /\ PIdle
    /\ IdIdle
    /\ CIdle
    /\ SIdle
    /\ FIdle
    /\ DIdle
    /\ content_length = 0
    /\ g_pc = "try"
    /\ g_html \in Htmls
    /\ g_k = 1
    /\ g_tried = <<>>
    /\ g_res = NoConfig

\* find_map goes on to the next pattern
GoOn(how) ==
    /\ g_tried' = Append(g_tried, how)
    /\ g_k' = g_k + 1
    /\ UNCHANGED <<g_pc, g_html, g_res>>

\* parse_for_object: the pattern does not match, .ok()? gives None
CfNoMatch ==
    /\ g_pc = "try"
    /\ g_k <= Len(CONFIG_PATTERNS)
    /\ regex_find(g_html, CONFIG_PATTERNS[g_k]) = 0
    /\ GoOn("no match")

\* parse_for_object: the pattern matches and json_object fails
CfScanFail ==
    /\ g_pc = "try"
    /\ g_k <= Len(CONFIG_PATTERNS)
    /\ LET m == regex_find(g_html, CONFIG_PATTERNS[g_k])
       IN  m # 0 /\ json_object_behind(g_html, m) = 0
    /\ GoOn("no object")

\* deserialize_ytplayer_config fails on the object scanned, .ok() gives None
CfParseFail ==
    /\ g_pc = "try"
    /\ g_k <= Len(CONFIG_PATTERNS)
    /\ LET m == regex_find(g_html, CONFIG_PATTERNS[g_k])
           j == IF m = 0 THEN 0 ELSE json_object_behind(g_html, m)
       IN  j # 0 /\ ~deserialize_ytplayer_config(g_html, j)
    /\ GoOn("no parse")

\* the object scanned parses: find_map returns its PlayerResponse
CfFound ==
    /\ g_pc = "try"
    /\ g_k <= Len(CONFIG_PATTERNS)
    /\ LET m == regex_find(g_html, CONFIG_PATTERNS[g_k])
           j == IF m = 0 THEN 0 ELSE json_object_behind(g_html, m)
       IN  /\ j # 0
           /\ deserialize_ytplayer_config(g_html, j)
           /\ g_res' = ConfigAt(j)
    /\ g_pc' = "done"
    /\ UNCHANGED <<g_html, g_k, g_tried>>

\* every pattern gave None: ok_or_else(|| Error::UnexpectedResponse(..))
CfNotFound ==
    /\ g_pc = "try"
    /\ g_k > Len(CONFIG_PATTERNS)
    /\ g_res' = [kind |-> "UnexpectedResponse", at |-> 0]
    /\ g_pc' = "done"
    /\ UNCHANGED <<g_html, g_k, g_tried>>

GNext ==
    \/ CfNoMatch /\ UNCHANGED notG
    \/ CfScanFail /\ UNCHANGED notG
    \/ CfParseFail /\ UNCHANGED notG
    \/ CfFound /\ UNCHANGED notG
    \/ CfNotFound /\ UNCHANGED notG

SpecConfig == GInit /\ [][GNext]_vars


(***************************************************************************)
(* A download with a Callback: wrap_callback and on_progress of            *)
(* stream/callback.rs.  The download future that is joined with            *)
(* on_progress reports as write_stream_to_file does; that it signals       *)
(* Finished whenever it ends is taken from the specification ("a final     *)
(* completion callback receives the final path or None on error").         *)
(***************************************************************************)
\* the 1_000_000 of "let current_million = data / 1_000_000"
Million == 1000000

\* the sizes of the chunks the body arrives in
ChunkSizes == {400000, 1000000}

ClosureKinds == {"Closure", "AsyncClosure", "SlowClosure", "SlowAsyncClosure"}
ChannelKinds == {"Channel", "SlowChannel"}
SlowKinds == {"SlowClosure", "SlowAsyncClosure", "SlowChannel"}
OnProgressTypes == {"None"} \cup ClosureKinds \cup ChannelKinds

\* InternalSignal::Value(data) and InternalSignal::Finished
SignalValue(data) == [signal |-> "Value", data |-> data]
Finished == [signal |-> "Finished", data |-> 0]

\* a handler that fires for every counter of a megabyte or more
SlowFires_every(trigger, data) == data \div Million >= 1

\* if *trigger < current_million, with current_million = data / 1_000_000
SlowFires(trigger, data) == trigger < data \div Million

\* the internal channel is closed: receiver.close() was called, or
\* on_progress has returned and dropped the receiver
InternalClosed == sw_rx = "closed" \/ sw_loop = "done"

WInit ==
    /\ DlIdle
    /\ ClIdle
    /\ PIdle
    /\ IdIdle
    /\ CIdle
    /\ SIdle
    /\ GIdle
    /\ FIdle
    /\ DIdle
    /\ content_length = 0
    /\ sw_kind \in OnProgressTypes
    /\ sw_cancel \in (IF sw_kind \in ChannelKinds THEN BOOLEAN ELSE {FALSE})
    /\ sw_pc = "join"
    /\ sw_dl = "create"
    /\ sw_counter = 0
    /\ sw_total = 0
    /\ sw_sends = 0
    /\ sw_queue = <<>>
    /\ sw_rx = "open"
    /\ sw_loop = "recv"
    /\ sw_held = 0
    /\ sw_trigger = 0
    /\ sw_seen = <<>>
    /\ sw_fired = <<>>
    /\ sw_user = "open"
    /\ sw_inbox = 0
    /\ sw_result = "none"

\* the download future: File::create(&path) succeeds or fails
SwCreate ==
    /\ sw_dl = "create"
    /\ \/ sw_dl' = "run" /\ UNCHANGED sw_result
       \/ sw_dl' = "finishing" /\ sw_result' = "IO"
    /\ UNCHANGED <<swConf, sw_counter, sw_total, sw_sends, swLoop, swUser, sw_queue, sw_pc>>

\* write_stream_to_file: a chunk of n bytes is written, counter += chunk.len()
\* and channel.try_send(counter): Closed ends the download with
\* ChannelClosed, Full is ignored
SwChunk ==
    /\ sw_dl = "run"
    /\ sw_sends < MaxReports
    /\ \E n \in ChunkSizes :
        /\ sw_counter' = sw_counter + n
        /\ sw_total' = sw_total + n
        /\ sw_sends' = sw_sends + 1
        /\ IF InternalClosed
           THEN /\ sw_result' = "ChannelClosed"
                /\ sw_dl' = "finishing"
                /\ UNCHANGED sw_queue
           ELSE /\ sw_queue' = IF Len(sw_queue) >= ChannelCap THEN sw_queue
                               ELSE Append(sw_queue, SignalValue(sw_counter + n))
                /\ UNCHANGED <<sw_result, sw_dl>>
    /\ UNCHANGED <<swConf, swLoop, swUser, sw_pc>>

\* download_full_seq: the next write_stream_to_file begins, with its own
\* counter
SwSegment ==
    /\ sw_dl = "run"
    /\ sw_counter # 0
    /\ sw_counter' = 0
    /\ UNCHANGED <<swConf, sw_dl, sw_total, sw_sends, sw_result, swLoop, swUser, sw_queue,
                   sw_pc>>

\* the body ends, or a request or a write fails
SwEnd ==
    /\ sw_dl = "run"
    /\ sw_dl' = "finishing"
    /\ sw_result' \in {"Ok", "Request"}
    /\ UNCHANGED <<swConf, sw_counter, sw_total, sw_sends, swLoop, swUser, sw_queue, sw_pc>>

\* the download future signals Finished before it returns: the send waits
\* for room in the channel, and fails, unnoticed, when the channel is closed
SwFinished ==
    /\ sw_dl = "finishing"
    /\ \/ InternalClosed /\ UNCHANGED sw_queue
       \/ /\ ~InternalClosed
          /\ Len(sw_queue) < ChannelCap
          /\ sw_queue' = Append(sw_queue, Finished)
    /\ sw_dl' = "ended"
    /\ UNCHANGED <<swConf, sw_counter, sw_total, sw_sends, sw_result, swLoop, swUser, sw_pc>>

\* on_progress with OnProgressType::None returns at once
SwNone ==
    /\ sw_kind = "None"
    /\ sw_loop = "recv"
    /\ sw_loop' = "done"
    /\ sw_queue' = <<>>
    /\ UNCHANGED <<swConf, swDl, sw_rx, sw_held, sw_trigger, sw_seen, sw_fired, swUser, sw_pc>>

\* the loop of on_progress: receiver.recv() yields Value(data).  A slow
\* handler is called when the counter has reached a megabyte that
\* last_trigger has not, any other handler for every counter; a closure is
\* called on the spot, a channel handler goes on to sender.send(arguments).
SwRecv ==
    /\ sw_kind # "None"
    /\ sw_loop = "recv"
    /\ sw_queue # <<>>
    /\ Head(sw_queue).signal = "Value"
    /\ LET data == Head(sw_queue).data
           fires == sw_kind \in SlowKinds => SlowFires(sw_trigger, data)
       IN
        /\ sw_queue' = Tail(sw_queue)
        /\ sw_seen' = Append(sw_seen, data)
        /\ sw_trigger' = IF sw_kind \in SlowKinds /\ fires THEN data \div Million
                         ELSE sw_trigger
        /\ IF fires /\ sw_kind \in ChannelKinds
           THEN sw_loop' = "send" /\ sw_held' = data /\ UNCHANGED sw_fired
           ELSE /\ sw_fired' = IF fires THEN Append(sw_fired, data) ELSE sw_fired
                /\ UNCHANGED <<sw_loop, sw_held>>
    /\ UNCHANGED <<swConf, swDl, sw_rx, swUser, sw_pc>>

\* sender.send(arguments).await of a channel handler: it waits while the
\* user's channel is full, and fails when the user's receiver is gone, which
\* closes the internal receiver when cancel_on_close is set
SwSend ==
    /\ sw_loop = "send"
    /\ \/ /\ sw_user = "closed"
          /\ sw_rx' = IF sw_cancel THEN "closed" ELSE sw_rx
          /\ UNCHANGED <<sw_fired, sw_inbox>>
       \/ /\ sw_user = "open"
          /\ sw_inbox < UserCap
          /\ sw_inbox' = sw_inbox + 1
          /\ sw_fired' = Append(sw_fired, sw_held)
          /\ UNCHANGED sw_rx
    /\ sw_loop' = "recv"
    /\ sw_held' = 0
    /\ UNCHANGED <<swConf, swDl, sw_trigger, sw_seen, sw_user, sw_queue, sw_pc>>

\* receiver.recv() yields Finished, or None from a closed and empty channel:
\* the loop ends
SwBreak ==
    /\ sw_kind # "None"
    /\ sw_loop = "recv"
    /\ \/ sw_queue # <<>> /\ Head(sw_queue).signal = "Finished"
       \/ sw_rx = "closed" /\ sw_queue = <<>>
    /\ sw_loop' = "done"
    /\ sw_queue' = <<>>
    /\ UNCHANGED <<swConf, swDl, sw_rx, sw_held, sw_trigger, sw_seen, sw_fired, swUser, sw_pc>>

\* futures::future::join(wrap_fut, aid_fut).await: both futures are done
SwJoin ==
    /\ sw_pc = "join"
    /\ sw_dl = "ended"
    /\ sw_loop = "done"
    /\ sw_pc' = "complete"
    /\ UNCHANGED <<swConf, swDl, swLoop, swUser, sw_queue>>

\* Self::on_complete(..).await, and wrap_callback returns the result
SwComplete ==
    /\ sw_pc = "complete"
    /\ sw_pc' = "returned"
    /\ UNCHANGED <<swConf, swDl, swLoop, swUser, sw_queue>>

\* the user takes one CallbackArguments out of the channel
SwUserRecv ==
    /\ sw_user = "open"
    /\ sw_inbox > 0
    /\ sw_inbox' = sw_inbox - 1
    /\ UNCHANGED <<swConf, swDl, swLoop, sw_user, sw_queue, sw_pc>>

\* the user drops the receiver of the channel
SwUserClose ==
    /\ sw_kind \in ChannelKinds
    /\ sw_user = "open"
    /\ sw_user' = "closed"
    /\ sw_inbox' = 0
    /\ UNCHANGED <<swConf, swDl, swLoop, sw_queue, sw_pc>>

\* a step of the call itself: of on_progress or of wrap_callback
SwOwnStep ==
    \/ SwNone /\ UNCHANGED notW
    \/ SwRecv /\ UNCHANGED notW
    \/ SwSend /\ UNCHANGED notW
    \/ SwBreak /\ UNCHANGED notW
    \/ SwJoin /\ UNCHANGED notW
    \/ SwComplete /\ UNCHANGED notW

WNext ==
    \/ SwCreate /\ UNCHANGED notW
    \/ SwChunk /\ UNCHANGED notW
    \/ SwSegment /\ UNCHANGED notW
    \/ SwEnd /\ UNCHANGED notW
    \/ SwFinished /\ UNCHANGED notW
    \/ SwNone /\ UNCHANGED notW
    \/ SwRecv /\ UNCHANGED notW
    \/ SwSend /\ UNCHANGED notW
    \/ SwBreak /\ UNCHANGED notW
    \/ SwJoin /\ UNCHANGED notW
    \/ SwComplete /\ UNCHANGED notW
    \/ SwUserRecv /\ UNCHANGED notW
    \/ SwUserClose /\ UNCHANGED notW

SpecCallback == WInit /\ [][WNext]_vars

(***************************************************************************)
(* The claims about the download.                                          *)
(***************************************************************************)
\* the download has returned
Returned == dl_pc = "done"

\* the body received for the request with sq = i (the request after the
\* first GET is sq=0)
SegmentBody(i) == reqLog[i + 2].body

\* the url of every request after the first carries sq = 0, 1, 2, ... in the
\* order of the requests, each added once to the untouched base query
AscendingSq ==
    \A i \in 2..Len(reqLog) :
        reqLog[i].url = Append(base_query, <<"sq", ToString(i - 2)>>)

\* no request is issued before the one before it was answered
OneAtATime == \A i \in 1..(Len(reqLog) - 1) : reqLog[i].outcome # "pending"

\* C1 as stated: after a 404 on the first GET, a successful download has
\* read Segment-Count N from the sq=0 response and the file is
\* B0 || ... || B(N-1), for every N the server reports.
C1_AsStated ==
    (Returned /\ result = "Ok" /\ fallbacks > 0) =>
        /\ Len(reqLog) >= segment_count + 1
        /\ file = Concat([i \in 1..segment_count |-> SegmentBody(i - 1)])

\* C1, amended: after a 404 on the first GET the requests that follow are
\* sq=0, 1, 2, ... in ascending order, one at a time; a successful download
\* has issued exactly sq=0..N-1 and its file is B0 || ... || B(N-1) when the
\* server reported N >= 1, and has issued sq=0 alone and its file is B0 when
\* the server reported N = 0.
C1_Sequenced ==
    /\ OneAtATime
    /\ fallbacks > 0 =>
        /\ reqLog[1].url = base_query /\ reqLog[1].outcome = "Status404"
        /\ AscendingSq
    /\ (Returned /\ result = "Ok" /\ fallbacks > 0) =>
        IF segment_count >= 1
        THEN /\ Len(reqLog) = segment_count + 1
             /\ file = Concat([i \in 1..segment_count |-> SegmentBody(i - 1)])
        ELSE /\ Len(reqLog) = 2
             /\ file = SegmentBody(0)

\* a sequenced download of three non-empty segments has succeeded
C1_Witness ==
    /\ Returned /\ result = "Ok" /\ fallbacks = 1
    /\ segment_count = 3
    /\ \A i \in 0..2 : SegmentBody(i) # <<>>

\* C2: when a download that created the destination file returns an error,
\* the file has been closed and removed (the removal itself working).
C2_AsStated ==
    (Returned /\ Len(reqLog) > 0 /\ result \notin {"none", "Ok"} /\ ~removeFailed) =>
        (~fileOpen /\ ~fileExists)

C10_AsStated ==
    (Returned /\ result = "Ok" /\ content_length # 0) => Len(file) = content_length

(***************************************************************************)
(* The claims about content_length.                                        *)
(***************************************************************************)
\* calls i and j of the history both returned Ok, i returned before j began,
\* and no call that returned between them failed
SuccessiveOk(i, j) ==
    /\ i < j
    /\ history[i].res = "Ok" /\ history[j].res = "Ok"
    /\ history[i].end < history[j].start
    /\ \A k \in (i + 1)..(j - 1) : history[k].res = "Ok"

\* C8: two successful content_length() calls, one after the other with no
\* failed call between them, return the same value.
C8_AsStated ==
    \A i, j \in 1..Len(history) : SuccessiveOk(i, j) => history[i].val = history[j].val

\* C9: when several calls run at once on a Stream whose length is not yet
\* cached, the cell is written once: at most one length is ever stored
\* (a stored 0 leaves the cell "not cached" and is not counted).
C9_AsStated ==
    Cardinality({i \in 1..Len(stores) : stores[i] # 0}) <= 1

(***************************************************************************)
(* The claims about fetch.                                                 *)
(***************************************************************************)
\* the places of event e in the log
At(e) == {i \in 1..Len(f_log) : f_log[i] = e}

\* the requests of get_video_info_and_js
JoinRequests == {"send:embed", "send:js", "send:api"}

\* C4: within one fetch(), the watch html has been received and
\* check_availability has run before the player script GET (or the embed
\* GET that leads to it) and the player API POST are sent; the two are
\* free to be sent in either order.
C4_WatchBeforeJoin ==
    f_op = "fetch" =>
        \A i \in 1..Len(f_log) :
            f_log[i] \in JoinRequests =>
                /\ f_log[1] = "send:watch"
                /\ f_log[2] = "recv:watch"
                /\ f_log[3] = "check"
                /\ i > 3

\* the API POST was sent before the script GET and both are in flight
C4_Witness ==
    /\ f_op = "fetch"
    /\ js_pc = "js" /\ api_pc = "api"
    /\ \E i \in At("send:api"), j \in At("send:js") : i < j

\* C5: fetch() goes on after the availability check exactly when the status
\* is Ok, or LoginRequired on an age restricted video, and then the script
\* url of an age restricted video is taken from the embed page; with any
\* other status fetch() returns VideoUnavailable with that status and sends
\* no further request.
C5_Availability ==
    (f_op = "fetch" /\ status # "unknown") =>
        /\ passed <=> (status = "Ok" \/ (status = "LoginRequired" /\ is_age_restricted))
        /\ (~passed /\ status \in Statuses) =>
            /\ f_pc = "done"
            /\ f_result = [kind |-> "VideoUnavailable", status |-> status]
        /\ ~passed => \A i \in 1..Len(f_log) : f_log[i] \notin JoinRequests
        /\ (passed /\ is_age_restricted) =>
            \A i \in At("send:js") : i > 1 /\ f_log[i - 1] = "recv:embed"

\* a LoginRequired, age restricted video was fetched to the end
C5_Witness ==
    /\ f_op = "fetch"
    /\ status = "LoginRequired" /\ is_age_restricted
    /\ f_result.kind = "Ok"
    /\ At("recv:embed") # {}

(***************************************************************************)
(* The claims about descramble.                                            *)
(***************************************************************************)
\* the formats the server sent, in the order of the chain; the formats
\* pushed from adaptive_fmts_raw come between the two lists
RawAt(i) ==
    IF i <= Len(raw.formats) THEN raw.formats[i]
    ELSE raw.adaptive[i - (Len(Chain) + Len(streams) - Len(raw.adaptive))]

\* the places in the chain (or, at the end, in streams) of the formats the
\* server sent
RawPlaces ==
    LET n == Len(Chain) + Len(streams)
    IN  (1..Len(raw.formats)) \cup ((n - Len(raw.adaptive) + 1)..n)

\* the format has no s and its url already holds a signature
PreSigned(r) == ~r.s.some /\ url_already_contains_signature(r.url)

\* C6: a format with no s whose url already contains signature, &sig= or
\* &lsig= is left as it is by apply_signature, whatever place the loop is
\* at, and when descramble succeeds the Stream made from it has the same
\* url and still no s.
C6_PreSignedUntouched ==
    \A i \in RawPlaces :
        PreSigned(RawAt(i)) =>
            /\ d_pc # "done" => Chain[i] = Deserialize(RawAt(i))
            /\ d_result = "Ok" =>
                /\ Len(streams) >= i
                /\ streams[i] = Deserialize(RawAt(i))
                /\ ~streams[i].s.some

\* descramble succeeded on a pre-signed format (with &sig= in its url) and a
\* format with a scrambled s
C6_Witness ==
    /\ d_result = "Ok"
    /\ \E i, j \in RawPlaces :
        /\ PreSigned(RawAt(i))
        /\ Contains(as_str(RawAt(i).url), <<"&", "sig", "=">>)
        /\ RawAt(j).s.some
        /\ streams[i] = Deserialize(RawAt(i))

\* the name of the query parameter the signature of a format goes to
TargetName(r) == IF r.sp = "none" THEN "sig" ELSE r.sp

\* C7: for a format with a scrambled s, once apply_signature has passed it,
\* its url is the url the server sent with the one pair sp=<descrambled s>
\* appended, sp being the format's own name and "sig" when it has none.
C7_AsStated ==
    \A i \in RawPlaces :
        (RawAt(i).s.some /\ d_pc = "sign" /\ d_i > i) =>
            Chain[i].url =
                append_pair(RawAt(i).url, TargetName(RawAt(i)),
                            decrypt_signature(js, RawAt(i).s.val))


(***************************************************************************)
(* The callbacks of a download.                                            *)
(***************************************************************************)
\* C11: a download started with a Callback whose on_complete is a closure
\* has, once it has ended, called the closure exactly once, with Some(path)
\* after a success and None after a failure.
C11_AsStated ==
    (dl_pc = "done" /\ callback # "NoCallback" /\ on_complete = "Closure") =>
        completed = <<CompletePath>>

\* a chunk was written and its counter handed to try_send
ProgressStep == dl_pc = "body" /\ ChannelGiven /\ counter' # counter

\* the error of a download cancelled because the internal receiver is closed
Cancelled ==
    \/ result' = "ChannelClosed"
    \/ dl_pc' = "remove" /\ error' = "ChannelClosed"

OwnBytes(s) == [k \in 1..dl[s].off |-> PByte(s, k)]

\* the destination of Stream s holds what a download running alone leaves
AsIfAlone(s) ==
    LET path == PathOf(p_call[s]) IN
        /\ dl[s].result = dl[s].alone
        /\ IF dl[s].aloneFile
           THEN fs[path] # 0 /\ ino[fs[path]] = OwnBytes(s)
           ELSE fs[path] = 0

\* both callers of download_to chose the same path
SamePathAsked ==
    /\ \A s \in PairStreams : p_call[s].api = "download_to"
    /\ PathOf(p_call[1]) = PathOf(p_call[2])

\* C13: when both downloads have returned, a download that returned Ok has
\* in its destination file exactly the bytes it wrote, as a download that ran
\* alone has, for any two Streams and any of download, download_to_dir and
\* download_to (two callers of download_to that name the same path aside).
C13_AsStated ==
    (~SamePathAsked /\ \A s \in PairStreams : dl[s].pc = "done") =>
        \A s \in PairStreams : dl[s].alone = "Ok" => AsIfAlone(s)

\* every download, failed or not, ends as if it had run alone when the two
\* destination paths differ
C13_DistinctPaths ==
    (PathOf(p_call[1]) # PathOf(p_call[2])
        /\ \A s \in PairStreams : dl[s].pc = "done") =>
        \A s \in PairStreams : AsIfAlone(s)


(***************************************************************************)
(* The claims about fetch_info and the merge of fetch.                     *)
(***************************************************************************)
\* C14: during fetch_info no GET for the player script and none for the
\* embed page is sent; only the watch html and the player API are requested.
C14_AsStated ==
    f_op = "fetch_info" =>
        \A i \in 1..Len(f_log) : f_log[i] \notin {"send:js", "send:embed"}

\* both futures of try_join! came to their end within fetch()
Joined == f_op = "fetch" /\ f_pc = "done" /\ js_pc = "done" /\ api_pc = "done"

ValidId(t) == Len(t) = IdLen /\ AllIn(t, IdClass)

\* C15: from_raw of an 11-character id over [A-Za-z0-9_-] is that id, and
\* from_raw of the watch, embed and share url of an Id is that Id again.
C15_RoundTrip ==
    /\ (id_pc = "parsed" /\ ValidId(id_raw)) => id_res = IdOk(id_raw)
    /\ id_pc = "again" => (ValidId(id_res.id) /\ id_again = IdOk(id_res.id))

\* an Id went through its embed url and came back
C15_Witness ==
    /\ id_pc = "again"
    /\ id_form = "embed"
    /\ id_again = IdOk(id_res.id)

\* the input of the spec's example
NotAVideo == <<"n", "o", "t", "-", "a", "-", "v", "i", "d", "e", "o">>

\* what may stand before the id in a watch or embed url with the given path
UrlPrefix(pre, path) ==
    \E sc \in {<<>>, <<"h", "t", "t", "p", ":", "/", "/">>,
               <<"h", "t", "t", "p", "s", ":", "/", "/">>} :
      \E w \in {<<>>, <<"w", "w", "w", ".">>} :
        \E n \in {2, 3} :
            /\ StartsWith(pre, sc \o w \o <<"y", "o", "u", "t", "u", "b", "e">>)
            /\ LET host == Drop(pre, Len(sc) + Len(w) + 7) IN
                /\ Len(host) = 1 + n + Len(path)
                /\ host[1] \in DotClass
                /\ AllIn(SubSeq(host, 2, 1 + n), WordClass)
                /\ Drop(host, 1 + n) = path

\* what may stand before the id in a share url
SharePrefix(pre) ==
    pre \in {<<"y", "o", "u", "t", "u", ".", "b", "e", "/">>,
             <<"h", "t", "t", "p", ":", "/", "/">> \o <<"y", "o", "u", "t", "u", ".", "b", "e", "/">>,
             <<"h", "t", "t", "p", "s", ":", "/", "/">> \o <<"y", "o", "u", "t", "u", ".", "b", "e", "/">>}

\* a query that begins with mark and has no line feed
QueryFrom(post, mark) == post # <<>> /\ post[1] = mark /\ AllIn(Tail(post), DotClass)

\* text is a bare id, a watch url, an embed url or a share url of the id that
\* begins at place i
ValidFormAt(text, i) ==
    LET pre == SubSeq(text, 1, i - 1)
        id == SubSeq(text, i, i + IdLen - 1)
        post == Drop(text, i + IdLen - 1)
    IN /\ i + IdLen - 1 <= Len(text)
       /\ ValidId(id)
       /\ \/ pre = <<>> /\ post = <<>>
          \/ /\ UrlPrefix(pre, <<"/", "w", "a", "t", "c", "h", "?", "v", "=">>)
             /\ post = <<>> \/ QueryFrom(post, "&")
          \/ /\ UrlPrefix(pre, <<"/", "e", "m", "b", "e", "d", "/">>)
             /\ \/ post = <<>> \/ QueryFrom(post, "?")
                \/ /\ post # <<>> /\ post[1] = "\\"
                   /\ Tail(post) = <<>> \/ QueryFrom(Tail(post), "?")
          \/ SharePrefix(pre) /\ post = <<>>

ValidForm(text) == \E i \in 1..Len(text) : ValidFormAt(text, i)

\* C16 as stated: from_raw and from_str answer BadIdFormat to every input
\* that is no bare id, watch url, embed url or share url, and to the input
\* "not-a-video".
C16_AsStated ==
    id_pc \in {"parsed", "checked"} =>
        /\ ~ValidForm(id_raw) => id_res = BadIdFormat
        /\ id_raw = NotAVideo => id_res = BadIdFormat

\* C16, amended: from_raw answers BadIdFormat to every input that is no bare
\* id, watch url, embed url or share url, and from_str to every input that
\* is no bare id; the input "not-a-video" is 11 characters over
\* [A-Za-z0-9_-] and both return it as an Id.
C16_Rejects ==
    /\ (id_pc = "parsed" /\ ~ValidForm(id_raw)) => id_res = BadIdFormat
    /\ (id_pc = "checked" /\ ~ValidId(id_raw)) => id_res = BadIdFormat
    /\ (id_pc \in {"parsed", "checked"} /\ id_raw = NotAVideo) =>
            id_res = IdOk(NotAVideo)

\* from_raw has rejected an input of twelve id characters
C16_Witness ==
    /\ id_pc = "parsed"
    /\ Len(id_raw) = IdLen + 1
    /\ AllIn(id_raw, IdClass)
    /\ id_res = BadIdFormat


(***************************************************************************)
(* The claims about the errors of descramble.                              *)
(***************************************************************************)
\* C17: descramble of a PlayerResponse without streamingData returns the
\* error UnexpectedResponse, and no other error.
C17_AsStated ==
    (d_pc = "done" /\ ~has_streaming_data) => d_result = "UnexpectedResponse"


(***************************************************************************)
(* The claims about the cipher.                                            *)
(***************************************************************************)
RECURSIVE SpliceSum(_)
SpliceSum(plan) ==
    IF plan = <<>> THEN 0
    ELSE (IF Head(plan)[1] = "splice" THEN Head(plan)[2] ELSE 0) + SpliceSum(Tail(plan))

C19_AsStated ==
    (c_s = ExampleSig /\ c_plan = ExamplePlan /\ c_pc \in {"run", "done"}) =>
        /\ c_k = 1 => c_a = <<"G", "F", "E", "D", "C", "B", "A", "H", "I", "J">>
        /\ c_k = 2 => c_a = <<"J", "I", "H", "A", "B", "C", "D", "E", "F", "G">>
        /\ c_k = 3 => c_a = <<"H", "I", "J", "A", "B", "C", "D", "E", "F", "G">>

\* C19: the plan swap 3, reverse 17, swap 2 takes "ABCDEFGHIJ" to
\* "DBCAEFGHIJ", then to "JIHGFEACBD", then to "HIJGFEACBD".
C19_Example ==
    (c_s = ExampleSig /\ c_plan = ExamplePlan /\ c_pc \in {"run", "done"}) =>
        /\ c_k = 1 => c_a = <<"D", "B", "C", "A", "E", "F", "G", "H", "I", "J">>
        /\ c_k = 2 => c_a = <<"J", "I", "H", "G", "F", "E", "A", "C", "B", "D">>
        /\ c_k = 3 => c_a = <<"H", "I", "J", "G", "F", "E", "A", "C", "B", "D">>

\* the example's plan has been applied to the example's signature
C19_Witness ==
    /\ c_s = ExampleSig
    /\ c_plan = ExamplePlan
    /\ c_pc = "done"
    /\ c_k = 3
    /\ c_a = <<"H", "I", "J", "G", "F", "E", "A", "C", "B", "D">>


(***************************************************************************)
(* The claims about the errors of content_length.                          *)
(***************************************************************************)
HeadErrors == {"Transport", "Status", "UnexpectedResponse"}

\* C21: a call of content_length() whose HEAD fails returns the error and
\* leaves the cell as it was, storing nothing; and a call returns without a
\* HEAD only when the cell is not 0, so a call that finds the cell still 0
\* after a failure sends a HEAD again.
C21_ErrorNotCached ==
    [][\A c \in Callers :
        /\ (cl_pc[c] = "head" /\ cl_pc'[c] = "idle" /\ Last(history').res # "Ok") =>
              /\ Last(history').res \in HeadErrors
              /\ Last(history').caller = c
              /\ content_length' = content_length
              /\ stores' = stores
        /\ (cl_pc[c] = "idle" /\ history' # history /\ Last(history').caller = c) =>
              content_length # 0]_vars

\* a call failed, and a call begun after it returned sent a HEAD again, the
\* cell being 0 all the time
C21_Witness ==
    /\ content_length = 0
    /\ stores = <<>>
    /\ \E i, j \in 1..Len(history) :
        /\ i < j
        /\ history[i].res \in HeadErrors
        /\ history[j].caller = history[i].caller
        /\ history[j].start > history[i].end
        /\ history[j].start < history[j].end


(***************************************************************************)
(* The claims about adaptive_fmts_raw.                                     *)
(***************************************************************************)
\* an entry of adaptive_fmts_raw does not parse as a RawFormat
HasBadEntry ==
    /\ adaptive_fmts_raw.some
    /\ \E i \in 1..Len(adaptive_fmts_raw.val) : adaptive_fmts_raw.val[i] = "bad"

\* C22: an entry of adaptive_fmts_raw that does not parse does not make
\* descramble fail: descramble ends as it would without the entry, and when
\* the script and the formats are good the Streams are made.
C22_AsStated ==
    (d_pc = "done" /\ has_streaming_data /\ HasBadEntry) =>
        /\ d_result # "QueryDeserialization"
        /\ (js = "player" /\ \A i \in RawPlaces : ~Unsigned(Deserialize(RawAt(i)))) =>
               d_result = "Ok"

(***************************************************************************)
(* The claims about the json scanner.                                      *)
(***************************************************************************)
\* json_object has returned, or panicked
Scanned == s_pc \in {"done", "helper"}

\* the place of the first byte of t that is in set, 0 when there is none
FirstOf(t, set) ==
    LET at == {k \in 1..Len(t) : t[k] \in set}
    IN  IF at = {} THEN 0 ELSE CHOOSE k \in at : \A j \in at : k <= j

RECURSIVE StopAt(_, _, _, _)
\* the first place from k on at which the context stack becomes empty, 0 when
\* it never does
StopAt(t, k, skp, stk) ==
    IF k > Len(t) THEN 0
    ELSE LET r == is_json_object_end(t[k], skp, stk)
         IN  IF r.end THEN k ELSE StopAt(t, k + 1, r.skip, r.stack)

\* the slice from the first byte of t in openers through the first place at
\* which the stack becomes empty, an error without such a byte or place
SliceFrom(t, openers) ==
    LET st == FirstOf(t, openers)
        e == IF st = 0 THEN 0 ELSE StopAt(t, st + 1, FALSE, <<t[st]>>)
    IN  IF e = 0 THEN Internal ELSE Found(SubSeq(t, st, e))

\* C23, as stated: the scanner starts at the first { or [ of its input and
\* returns the slice from there through the first place at which the stack
\* becomes empty, and an error when there is no opener or no such place.
C23_AsStated ==
    Scanned => s_res = SliceFrom(s_in, {"{", "["})

\* C23: the scanner starts at the first { of its input, whatever comes before
\* it, and returns the slice from there through the first place at which the
\* stack becomes empty, the stack not being empty before; it returns an error
\* when the input has no { or the stack never becomes empty.
C23_Scan ==
    /\ s_pc = "scan" => s_stack # <<>>
    /\ Scanned =>
        /\ s_res = SliceFrom(s_in, {"{"})
        /\ s_res.kind = "Ok" => s_stack = <<>>
        /\ FirstOf(s_in, {"{"}) = 0 => s_res = Internal

\* an object was returned from a text that has a [ before its first { and
\* more text behind the object
C23_Witness ==
    /\ Scanned
    /\ s_res.kind = "Ok"
    /\ s_in[1] = "["
    /\ Len(s_html) < Len(s_in)
    /\ Len(s_res.val) < Len(s_html)

RECURSIVE EndOfString(_, _)
\* a string was opened before place k: the place of the quote that closes it,
\* 0 when there is none.  A backslash escapes the next byte.
EndOfString(t, k) ==
    IF k > Len(t) THEN 0
    ELSE IF t[k] = "\"" THEN k
    ELSE IF t[k] = "\\" THEN EndOfString(t, k + 2)
    ELSE EndOfString(t, k + 1)

RECURSIVE EndOfItems(_, _, _)
\* an object or array was opened before place k: the place of its closer, 0
\* when t is not well formed from there.  Its items are strings, objects,
\* arrays and other bytes that are no delimiters.
EndOfItems(t, k, closer) ==
    IF k > Len(t) THEN 0
    ELSE IF t[k] = closer THEN k
    ELSE IF t[k] \in {"}", "]", "/", "\\"} THEN 0
    ELSE LET e == CASE t[k] = "\"" -> EndOfString(t, k + 1)
                    [] t[k] = "{" -> EndOfItems(t, k + 1, "}")
                    [] t[k] = "[" -> EndOfItems(t, k + 1, "]")
                    [] OTHER -> k
         IN  IF e = 0 THEN 0 ELSE EndOfItems(t, e + 1, closer)

\* the bytes of t from place a through place b hold a string with one of set
InString(t, a, b, set) ==
    \E i, j \in a..b :
        /\ i < j
        /\ t[i] = "\"" /\ EndOfString(t, i + 1) = j
        /\ \E k \in (i + 1)..(j - 1) : t[k] \in set

\* C24: in a string context the bytes { } [ and ] leave the stack as it is, a
\* backslash sets the skip flag, and the one byte after it is passed over
\* whatever it is; and when the first object of the text is well formed,
\* json_object returns exactly that object, and so does
\* find_object_from_startpoint for a text that begins with it, whatever
\* braces, brackets and escaped quotes its strings hold.
C24_Strings ==
    /\ [](LET st == FirstOf(s_in, {"{"})
              e == IF st = 0 THEN 0 ELSE EndOfItems(s_in, st + 1, "}")
          IN  /\ (Scanned /\ e # 0) => s_res = Found(SubSeq(s_in, st, e))
              /\ (s_pc = "helper" /\ st = 1 /\ e # 0) => h_res = Found(SubSeq(s_in, 1, e)))
    /\ [][(s_pc = "scan" /\ s_i <= Len(s_html)) =>
            /\ s_skip => (s_stack' = s_stack /\ ~s_skip' /\ s_i' = s_i + 1)
            /\ (~s_skip /\ Last(s_stack) = "\"") =>
                /\ s_html[s_i] \in {"{", "}", "[", "]"} => (s_stack' = s_stack /\ ~s_skip')
                /\ s_html[s_i] = "\\" => (s_stack' = s_stack /\ s_skip')
                /\ s_html[s_i] = "\"" => s_stack' = Pop(s_stack)]_vars

\* the object returned holds a string with a brace or a bracket and an
\* escaped quote, and the text goes on behind it
C24_Witness ==
    /\ s_pc = "helper"
    /\ s_res.kind = "Ok"
    /\ Len(s_res.val) < Len(s_html)
    /\ InString(s_res.val, 1, Len(s_res.val), {"{", "}", "[", "]"})
    /\ \E k \in 1..(Len(s_res.val) - 1) : s_res.val[k] = "\\" /\ s_res.val[k + 1] = "\""
    /\ EndOfItems(s_res.val, 2, "}") = Len(s_res.val)

\* C30: json_object never panics: the stack holds the initial { at its bottom
\* every time is_json_object_end inspects it, and the scan stops at a } that
\* empties the stack, a byte behind which a character begins.
C30_NoPanic ==
    /\ s_res # Panicked
    /\ (s_pc = "scan" /\ s_i <= Len(s_html)) => (s_stack # <<>> /\ s_stack[1] = "{")
    /\ s_pc \in {"scan", "found"} => s_html[1] = "{"
    /\ s_pc = "found" =>
        /\ s_stack = <<>>
        /\ s_html[s_i] = "}"
        /\ is_char_boundary(s_html, s_i)

\* the scan stopped in a text with characters that are not ASCII, one of them
\* after a backslash
C30_Witness ==
    /\ Scanned
    /\ s_res.kind = "Ok"
    /\ \E k \in 1..(Len(s_html) - 1) : s_html[k] = "\\" /\ s_html[k + 1] = "hi"
    /\ Last(s_res.val) = "}"

(***************************************************************************)
(* The claims about get_ytplayer_config.                                   *)
(***************************************************************************)
\* the object that the leftmost match of pattern gives: the first { behind
\* the match opens an object that is closed and parses; 0 when the pattern
\* does not match or that object does not scan or parse
GivenBy(pattern) ==
    LET found == {m \in 1..Len(g_html) : g_html[m] = pattern}
        objs == {j \in 1..Len(g_html) :
                   /\ g_html[j] \in {"R", "A"}
                   /\ \E m \in found :
                         /\ \A n \in found : m <= n
                         /\ m < j
                         /\ \A n \in (m + 1)..(j - 1) : g_html[n] \notin ObjectTokens}
    IN  IF objs = {} THEN 0 ELSE CHOOSE j \in objs : TRUE

\* C26: the patterns are tried in the order ytplayer.config,
\* ytInitialPlayerResponse, yt.setConfig; behind the leftmost match of a
\* pattern the scanner is run and the object parsed, and the first pattern
\* whose object parses gives the result, so a later pattern is used exactly
\* when every earlier one fails to match, to scan or to parse; when all
\* three fail the result is UnexpectedResponse.
C26_FirstSuccess ==
    LET a == GivenBy("ytplayer.config")
        b == GivenBy("ytInitialPlayerResponse")
        c == GivenBy("yt.setConfig")
    IN  /\ g_pc = "done" =>
            g_res = IF a # 0 THEN ConfigAt(a)
                    ELSE IF b # 0 THEN ConfigAt(b)
                    ELSE IF c # 0 THEN ConfigAt(c)
                    ELSE [kind |-> "UnexpectedResponse", at |-> 0]
        /\ Len(g_tried) >= 1 => a = 0
        /\ Len(g_tried) >= 2 => b = 0
        /\ Len(g_tried) >= 3 => c = 0

\* ytplayer.config matched and its object did not parse, and the object
\* behind ytInitialPlayerResponse was returned
C26_Witness ==
    /\ g_pc = "done"
    /\ g_res.kind = "Ok"
    /\ g_tried = <<"no parse">>
    /\ \E m \in 1..Len(g_html) : g_html[m] = "ytInitialPlayerResponse" /\ m < g_res.at

(***************************************************************************)
(* The claims about a download with a Callback.                            *)
(***************************************************************************)
\* C25: a slow on_progress handler is called at most once per megabyte of
\* progress: at most floor(B / 1,000,000) times over a download that has
\* reported B bytes, and never twice with byte counts of the same megabyte.
C25_OncePerMB ==
    sw_kind \in SlowKinds =>
        /\ Len(sw_fired) <= sw_total \div Million
        /\ \A i, j \in 1..Len(sw_fired) :
            i # j => sw_fired[i] \div Million # sw_fired[j] \div Million
        /\ \A i \in 1..Len(sw_fired) : sw_fired[i] >= Million

\* a slow handler was called for two megabytes, and a counter of a megabyte
\* it had been called for was passed over
C25_Witness ==
    /\ sw_kind \in SlowKinds
    /\ Len(sw_fired) >= 2
    /\ \E i \in 1..Len(sw_seen) : \E j \in 1..Len(sw_fired) :
        /\ sw_seen[i] # sw_fired[j]
        /\ sw_seen[i] \div Million = sw_fired[j] \div Million

\* C28: once the download has ended, with success or with an error (the
\* failure of File::create included), the call returns: as long as it has not
\* returned, on_progress or wrap_callback has a step to take, whatever the
\* user of the Callback does or leaves undone.
C28_AsStated ==
    (sw_dl = "ended" /\ sw_pc # "returned") => ENABLED SwOwnStep

(***************************************************************************)
(* The claims about the progress channel of a download.                    *)
(***************************************************************************)
\* C27: a Callback whose on_progress is OnProgressType::None never makes a
\* download fail with ChannelClosed.
C27_AsStated ==
    (callback = "None" /\ Returned) => result # "ChannelClosed"

\* C29: the byte counts a download hands to on_progress never decrease, and
\* each is the number of bytes written to the file when it is sent, on the
\* direct path and on the sequenced fallback alike.
C29_AsStated ==
    /\ [](\A i, j \in 1..Len(delivered) : i < j => delivered[i] <= delivered[j])
    /\ [][Len(channel') > Len(channel) => Last(channel') = Len(file')]_vars

====
